---- MODULE Spec2Model ----
(***************************************************************************)
(* Broadcast lifecycle orchestration of Live-Audio-Broadcast: the          *)
(* broadcast controller (start / end / token endpoints), the 'broadcasts'  *)
(* queue worker (auto-end, hls-start, hls-stop), the periodic sweep, and   *)
(* the scheduler cycle (template expander + broadcast planner).            *)
(*                                                                         *)
(* Time is in milliseconds since an epoch that is a UTC midnight.          *)
(* A null timestamp is NullTime, a null string is "", a null room is 0.    *)
(***************************************************************************)
EXTENDS Integers, Sequences, FiniteSets, TLC

VARIABLES
  now,               \* wall clock read by Date.now() / new Date()
  broadcasts,        \* table broadcasts: sequence of rows, id = index
  broadcastQueue,    \* BullMQ queue 'broadcasts': jobs waiting or delayed
  completedJobIds,   \* custom job ids of finished jobs BullMQ still retains
  notificationQueue, \* BullMQ queue 'notifications': jobs in order of add
  activeRelays,      \* hls.js activeRelays map: broadcast id -> relay entry
  ffmpegProcs,       \* transcoding processes spawned so far, pid = index
  egressSessions,    \* egress sessions started at the provider, id = index
  notificationLogs,  \* table notification_logs: sequence of rows
  pushes,            \* calls of sendFcmData / sendVoipPush, in order
  rooms,             \* rooms existing at the audio provider
  procs,             \* startBroadcast calls between their read and their write
  lastEvent,         \* the last reply sent / job outcome logged
  sweepLog,          \* outcome of the last periodic sweep
  templates,         \* table schedule_templates: sequence of rows
  schedules,         \* table schedules: sequence of occurrence rows
  lastCycle,         \* the instant the last scheduler cycle sampled, or NullTime
  cycles,            \* runSchedulerCycle calls in flight, between their awaits
  subscriptions      \* table subscriptions: sequence of rows

vars == <<now, broadcasts, broadcastQueue, completedJobIds, notificationQueue,
          activeRelays, rooms, procs, lastEvent, sweepLog, templates, schedules,
          lastCycle, ffmpegProcs, egressSessions, notificationLogs, pushes,
          cycles, subscriptions>>

schedVars == <<templates, schedules, lastCycle, cycles>>

relayVars == <<ffmpegProcs, egressSessions>>

notifyVars == <<notificationLogs, pushes, subscriptions>>

(***************************************************************************)
(* Program constants and configuration                                     *)
(***************************************************************************)
NullTime == -1

DEFAULT_BROADCAST_MAX_MINUTES == 15

GraceMs == 1000

MinuteMs == 60 * 1000

HourMs == 60 * MinuteMs

DayMs == 24 * HourMs

\* env.BROADCAST_PREP_MINUTES is left unset
PrepMinutes == 2

\* env.BROADCAST_MAX_MINUTES is left unset: every reader falls back to 15.
MaxMinutes == DEFAULT_BROADCAST_MAX_MINUTES

TargetMs == MaxMinutes * MinuteMs

\* env.HLS_ENABLED
HlsEnabled == TRUE

\* env.LIVEKIT_URL and the credentials are configured
LivekitConfigured == TRUE

\* the names worker.js binds from 'drizzle-orm'
WorkerDrizzleImports == {"and", "eq"}

(***************************************************************************)
(* Bounds of the model                                                     *)
(***************************************************************************)
\* number of max-duration periods the clock may run through
Horizon == 1

\* number of seeded broadcast rows
NumRows == 1

\* startBroadcast calls in flight at once (the call awaits the audio
\* provider between its select and its update)
MaxInflight == 2

\* the instants the clock is sampled at: around each max-duration boundary
Instants ==
  {0} \cup { k * TargetMs + d : k \in 1..Horizon,
                                d \in {0 - (GraceMs + 1), 0, 1} }

Slots == 1..MaxInflight

\* runSchedulerCycle calls in flight at once (setInterval starts a cycle at
\* every tick, whether or not the cycle before it has returned)
MaxCycles == 2

CycleIds == 1..MaxCycles

(***************************************************************************)
(* Rows, jobs, events                                                      *)
(***************************************************************************)
\* a freshly inserted row; createdBy 0 is null (the planner's rows)
BroadcastRow(m, by, p, st, sch) ==
  [masjidId |-> m, createdBy |-> by, prayerName |-> p, status |-> st,
   scheduledAt |-> sch, startedAt |-> NullTime, endedAt |-> NullTime,
   endedReason |-> "", recordingUrl |-> "", streamRoomId |-> 0]

Idle == [op |-> "idle", id |-> 0, room |-> 0]

\* a scheduler cycle slot with no call in it: the instant the call sampled,
\* the template and day offset its expander is at, the occurrence row it is
\* about to insert, the occurrences its planner still has to look at, and
\* the exception that ended its expander ("" for none)
IdleCycle ==
  [phase |-> "idle", t |-> NullTime, i |-> 1, offset |-> 0, pending |-> <<>>,
   items |-> <<>>, aborted |-> ""]

Event(op, id, code, msg) == [op |-> op, id |-> id, code |-> code, msg |-> msg]

NoEvent == Event("none", 0, 0, "")

NotificationJob(name, id, m, p) ==
  [name |-> name, broadcastId |-> id, masjidId |-> m, prayerName |-> p]

BroadcastJob(name, id, reason, due, jobId) ==
  [name |-> name, broadcastId |-> id, endedReason |-> reason, due |-> due,
   jobId |-> jobId]

\* Queue.add: a job whose custom jobId BullMQ already holds (waiting, delayed
\* or finished and retained) is ignored.
QueueAdd(q, done, job) ==
  IF job.jobId # <<>> /\ (job.jobId \in done \/ \E j \in q : j.jobId = job.jobId)
  THEN q
  ELSE q \cup {job}

RowIds == 1..Len(broadcasts)

\* ids a request may carry: the ids of the rows (the not-found replies
\* change nothing and are left out)
RequestIds == 1..Len(broadcasts)

(***************************************************************************)
(* broadcast.controller.js                                                 *)
(***************************************************************************)
IsBroadcastExpired(startedAt, t) ==
  IF startedAt = NullTime THEN FALSE ELSE t - startedAt >= TargetMs

\* a completing update that loses the reason
CompletedRowNoReason(row, t, reason) ==
  [row EXCEPT !.status = "completed", !.endedAt = t]

\* the update markBroadcastExpired, the auto-end handler and the sweep issue
CompletedRow(row, t, reason) ==
  [row EXCEPT !.status = "completed", !.endedAt = t, !.endedReason = reason]

\* startBroadcast's select: startedAt is not among the columns, so the
\* record's startedAt reads undefined.
StartSelect(row) ==
  [masjidId |-> row.masjidId, status |-> row.status,
   prayerName |-> row.prayerName, streamRoomId |-> row.streamRoomId,
   startedAt |-> NullTime]

\* the status checks of startBroadcast after the select
StartGuard(rec, t) ==
  IF rec.status = "live"
  THEN IF IsBroadcastExpired(rec.startedAt, t) THEN "expired" ELSE "already_live"
  ELSE IF rec.status = "completed" THEN "already_ended" ELSE "proceed"

\* the update of startBroadcast
LiveRow(row, room, t) ==
  [row EXCEPT !.status = "live",
              !.streamRoomId = IF room # 0 THEN room ELSE row.streamRoomId,
              !.startedAt = t]

\* a status check that lets only a live broadcast be ended
EndGuardOnlyLive(status) == IF status = "live" THEN "proceed" ELSE "already_ended"

\* the status check of endBroadcast after the select
EndGuard(status) == IF status = "completed" THEN "already_ended" ELSE "proceed"

\* the update of endBroadcast: absent body fields leave the column alone
EndedRow(row, t, recordingUrl, reason) ==
  [row EXCEPT !.status = "completed", !.endedAt = t,
              !.recordingUrl = IF recordingUrl # "" THEN recordingUrl ELSE row.recordingUrl,
              !.endedReason = IF reason # "" THEN reason ELSE row.endedReason]

LowestIdle(s) == procs[s] = Idle /\ \A r \in Slots : r < s => procs[r] # Idle

\* markBroadcastExpired(id): unconditional update by id, then the end job
MarkBroadcastExpired(id) ==
  /\ broadcasts' = [broadcasts EXCEPT ![id] =
                      CompletedRow(broadcasts[id], now, "max_duration_reached")]
  /\ notificationQueue' = Append(notificationQueue,
        NotificationJob("broadcast-end", id, broadcasts[id].masjidId, ""))

\* startBroadcast up to its first await after the status checks
StartBroadcastRead(s, id) ==
  /\ LowestIdle(s)
  /\ IF id \notin RowIds
     THEN /\ lastEvent' = Event("start", id, 404, "not_found")
          /\ UNCHANGED <<broadcasts, notificationQueue, procs>>
     ELSE LET rec == StartSelect(broadcasts[id])
              g == StartGuard(rec, now)
          IN  CASE g = "expired" ->
                     /\ MarkBroadcastExpired(id)
                     /\ lastEvent' = Event("start", id, 409, "expired")
                     /\ UNCHANGED procs
                [] g = "proceed" ->
                     /\ procs' = [procs EXCEPT ![s] =
                                    [op |-> "start", id |-> id, room |-> rec.streamRoomId]]
                     /\ UNCHANGED <<broadcasts, notificationQueue, lastEvent>>
                [] OTHER ->
                     /\ lastEvent' = Event("start", id, 409, g)
                     /\ UNCHANGED <<broadcasts, notificationQueue, procs>>
  /\ UNCHANGED <<now, broadcastQueue, completedJobIds, activeRelays, rooms,
                 sweepLog, schedVars, relayVars, notifyVars>>

\* the jobs startBroadcast adds to the 'broadcasts' queue
StartJobs(q, done, id, room, t) ==
  LET q1 == IF HlsEnabled /\ room # 0
            THEN QueueAdd(q, done, BroadcastJob("hls-start", id, "", 0, <<>>))
            ELSE q
  IN  QueueAdd(q1, done,
        BroadcastJob("broadcast-auto-end", id, "max_duration_reached",
                     t + (IF MaxMinutes > 1 THEN MaxMinutes ELSE 1) * MinuteMs,
                     <<id>>))

\* startBroadcast from requireMasjidAuthority to the reply
StartBroadcastCommit(s, admin) ==
  /\ procs[s].op = "start"
  /\ procs' = [procs EXCEPT ![s] = Idle]
  /\ LET id == procs[s].id
         room == IF procs[s].room = 0 /\ LivekitConfigured THEN id ELSE procs[s].room
     IN  IF ~admin
         THEN /\ lastEvent' = Event("start", id, 403, "forbidden")
              /\ UNCHANGED <<broadcasts, notificationQueue, broadcastQueue, rooms>>
         ELSE /\ rooms' = IF procs[s].room = 0 /\ LivekitConfigured
                          THEN rooms \cup {id} ELSE rooms
              /\ broadcasts' = [broadcasts EXCEPT ![id] = LiveRow(broadcasts[id], room, now)]
              /\ notificationQueue' = Append(notificationQueue,
                    NotificationJob("broadcast-start", id, broadcasts[id].masjidId,
                                    broadcasts[id].prayerName))
              /\ broadcastQueue' = StartJobs(broadcastQueue, completedJobIds, id, room, now)
              /\ lastEvent' = Event("start", id, 200, "started")
  /\ UNCHANGED <<now, completedJobIds, activeRelays, sweepLog, schedVars, relayVars, notifyVars>>

\* endBroadcast: select, status check, requireMasjidAuthority, update, jobs
EndBroadcast(id, admin, recordingUrl, reason) ==
  /\ IF id \notin RowIds
     THEN /\ lastEvent' = Event("end", id, 404, "not_found")
          /\ UNCHANGED <<broadcasts, notificationQueue, broadcastQueue>>
     ELSE IF EndGuard(broadcasts[id].status) = "already_ended"
          THEN /\ lastEvent' = Event("end", id, 409, "already_ended")
               /\ UNCHANGED <<broadcasts, notificationQueue, broadcastQueue>>
          ELSE IF ~admin
               THEN /\ lastEvent' = Event("end", id, 403, "forbidden")
                    /\ UNCHANGED <<broadcasts, notificationQueue, broadcastQueue>>
               ELSE /\ broadcasts' = [broadcasts EXCEPT ![id] =
                                        EndedRow(broadcasts[id], now, recordingUrl, reason)]
                    /\ notificationQueue' = Append(notificationQueue,
                          NotificationJob("broadcast-end", id, broadcasts[id].masjidId, ""))
                    /\ broadcastQueue' =
                          IF HlsEnabled
                          THEN QueueAdd(broadcastQueue, completedJobIds,
                                        BroadcastJob("hls-stop", id, "", 0, <<>>))
                          ELSE broadcastQueue
                    /\ lastEvent' = Event("end", id, 200, "ended")
  /\ UNCHANGED <<now, completedJobIds, activeRelays, rooms, procs, sweepLog, schedVars, relayVars, notifyVars>>

\* getBroadcastToken / getBroadcastListenerToken: the select (with startedAt),
\* the expiry marking, and the room the token is minted for
GetBroadcastToken(id) ==
  /\ IF id \notin RowIds
     THEN /\ lastEvent' = Event("token", id, 404, "not_found")
          /\ UNCHANGED <<broadcasts, notificationQueue, rooms>>
     ELSE IF broadcasts[id].status # "live"
          THEN /\ lastEvent' = Event("token", id, 409, "not_live")
               /\ UNCHANGED <<broadcasts, notificationQueue, rooms>>
          ELSE IF IsBroadcastExpired(broadcasts[id].startedAt, now)
               THEN /\ MarkBroadcastExpired(id)
                    /\ lastEvent' = Event("token", id, 409, "expired")
                    /\ UNCHANGED rooms
               ELSE /\ IF broadcasts[id].streamRoomId = 0 /\ LivekitConfigured
                       THEN /\ rooms' = rooms \cup {id}
                            /\ broadcasts' = [broadcasts EXCEPT ![id].streamRoomId = id]
                       ELSE UNCHANGED <<rooms, broadcasts>>
                    /\ lastEvent' = Event("token", id, 200, "token")
                    /\ UNCHANGED notificationQueue
  /\ UNCHANGED <<now, broadcastQueue, completedJobIds, activeRelays, procs,
                 sweepLog, schedVars, relayVars, notifyVars>>

(***************************************************************************)
(* hls.js, livekit.js: the parts the lifecycle touches                     *)
(***************************************************************************)
\* env.HLS_PUBLIC_BASE_URL is left unset: getHlsPublicUrl returns null, and
\* the hls-start handler has no hlsUrl to write to the row
HlsPublicUrlConfigured == FALSE

\* the empty activeRelays map
NoRelays == <<>>

\* the relay object startHlsRelay stores: egress id (0: null) and process
RelayEntry(id, egressId, pid) ==
  [broadcastId |-> id, egressId |-> egressId, process |-> pid]

\* startLivekitRtmpEgress: a new session at the provider (none without the
\* provider's configuration)
StartLivekitRtmpEgress(egs, id) ==
  IF LivekitConfigured THEN Append(egs, [broadcastId |-> id, active |-> TRUE]) ELSE egs

\* spawn(ffmpeg)
SpawnFfmpeg(ps, id) == Append(ps, [broadcastId |-> id, state |-> "running"])

\* activeRelays.set(broadcastId, relay)
SetRelay(relays, id, relay) ==
  [k \in DOMAIN relays \cup {id} |-> IF k = id THEN relay ELSE relays[k]]

\* a stop that leaves the entry in the map
StopHlsRelayKeepsEntry(relays, id) == relays

\* stopHlsRelay(id), the map: no entry, no effect; otherwise the entry is
\* deleted
StopHlsRelay(relays, id) == [k \in DOMAIN relays \ {id} |-> relays[k]]

\* a stop that sends no signal
KillRelayProcessNever(ps, relays, id, fails) == ps

\* stopHlsRelay(id), the process: SIGTERM to the entry's process; a kill
\* that throws is caught and logged, and the process keeps running
KillRelayProcess(ps, relays, id, fails) ==
  IF id \in DOMAIN relays /\ ~fails
  THEN [ps EXCEPT ![relays[id].process].state = IF @ = "running" THEN "killed" ELSE @]
  ELSE ps

\* stopHlsRelay(id), the egress: stopLivekitEgress(relay.egressId); a
\* request the provider fails is caught and logged, and the session stays
StopRelayEgress(egs, relays, id, fails) ==
  IF id \in DOMAIN relays /\ relays[id].egressId # 0 /\ ~fails
  THEN [egs EXCEPT ![relays[id].egressId].active = FALSE]
  ELSE egs

\* startHlsRelay({ broadcastId, roomName }): egress, process, map entry
StartHlsRelay(id) ==
  /\ egressSessions' = StartLivekitRtmpEgress(egressSessions, id)
  /\ ffmpegProcs' = SpawnFfmpeg(ffmpegProcs, id)
  /\ activeRelays' =
        SetRelay(activeRelays, id,
                 RelayEntry(id, IF LivekitConfigured THEN Len(egressSessions) + 1 ELSE 0,
                            Len(ffmpegProcs) + 1))

\* an exit handler that starts the relay again
FfmpegExitRespawns(pid) ==
  /\ pid \in DOMAIN ffmpegProcs
  /\ ffmpegProcs[pid].state # "exited"
  /\ ffmpegProcs' = SpawnFfmpeg([ffmpegProcs EXCEPT ![pid].state = "exited"],
                                ffmpegProcs[pid].broadcastId)
  /\ activeRelays' = SetRelay(activeRelays, ffmpegProcs[pid].broadcastId,
                              RelayEntry(ffmpegProcs[pid].broadcastId, 0,
                                         Len(ffmpegProcs) + 1))
  /\ UNCHANGED <<now, broadcasts, broadcastQueue, completedJobIds, notificationQueue,
                 rooms, procs, lastEvent, sweepLog, schedVars, egressSessions,
                 notifyVars>>

\* ffmpeg.on('exit'): the process is gone, and the handler deletes the map
\* entry of its broadcast id
FfmpegExit(pid) ==
  /\ pid \in DOMAIN ffmpegProcs
  /\ ffmpegProcs[pid].state # "exited"
  /\ ffmpegProcs' = [ffmpegProcs EXCEPT ![pid].state = "exited"]
  /\ activeRelays' = StopHlsRelay(activeRelays, ffmpegProcs[pid].broadcastId)
  /\ UNCHANGED <<now, broadcasts, broadcastQueue, completedJobIds, notificationQueue,
                 rooms, procs, lastEvent, sweepLog, schedVars, egressSessions,
                 notifyVars>>

\* deleteLivekitRoom(roomName): nothing without a room name
DeleteLivekitRoom(rs, room) == IF room = 0 THEN rs ELSE rs \ {room}

(***************************************************************************)
(* worker.js: the 'broadcasts' queue worker                                *)
(***************************************************************************)
\* a job can be handed to the worker once its delay has run out
Deliverable(j) == j \in broadcastQueue /\ now >= j.due

\* the queue after the handler returned: the job is finished and retained,
\* or (at-least-once delivery) it is handed out again
AfterJob(q, j, again) == IF again THEN q ELSE q \ {j}

DoneIds(j, again) ==
  IF again \/ j.jobId = <<>> THEN completedJobIds ELSE completedJobIds \cup {j.jobId}

\* job 'hls-start': startHlsRelay records the relay under the broadcast id
HlsStartJob(j, again) ==
  /\ Deliverable(j) /\ j.name = "hls-start"
  /\ IF HlsEnabled
     THEN StartHlsRelay(j.broadcastId)
     ELSE UNCHANGED <<activeRelays, relayVars>>
  /\ broadcastQueue' = AfterJob(broadcastQueue, j, again)
  /\ completedJobIds' = DoneIds(j, again)
  /\ lastEvent' = Event("hls-start", j.broadcastId, 0, "relay_started")
  /\ UNCHANGED <<now, broadcasts, notificationQueue, rooms, procs, sweepLog, schedVars,
                 notifyVars>>

\* job 'hls-stop': stopHlsRelay; killFails and stopFails are the outcomes of
\* the kill and of the provider's stopEgress
HlsStopJob(j, again, killFails, stopFails) ==
  /\ Deliverable(j) /\ j.name = "hls-stop"
  /\ activeRelays' = StopHlsRelay(activeRelays, j.broadcastId)
  /\ ffmpegProcs' = KillRelayProcess(ffmpegProcs, activeRelays, j.broadcastId, killFails)
  /\ egressSessions' = StopRelayEgress(egressSessions, activeRelays, j.broadcastId, stopFails)
  /\ broadcastQueue' = AfterJob(broadcastQueue, j, again)
  /\ completedJobIds' = DoneIds(j, again)
  /\ lastEvent' = Event("hls-stop", j.broadcastId, 0,
                        IF j.broadcastId \in DOMAIN activeRelays
                        THEN "relay_stopped" ELSE "no_relay")
  /\ UNCHANGED <<now, broadcasts, notificationQueue, rooms, procs, sweepLog, schedVars,
                 notifyVars>>

\* the auto-end handler's select: id, status and streamRoomId only, so the
\* record's startedAt reads undefined.
AutoEndSelect(row) ==
  [status |-> row.status, streamRoomId |-> row.streamRoomId, startedAt |-> NullTime]

\* a decision that does not look at the status
AutoEndDecisionNoStatus(rec, t) ==
  IF rec.startedAt # NullTime /\ t - rec.startedAt < TargetMs - GraceMs
  THEN "rescheduled"
  ELSE "ended"

\* what the handler decides from the record it read
AutoEndDecision(rec, t) ==
  IF rec.status # "live" THEN "noop"
  ELSE IF rec.startedAt # NullTime /\ t - rec.startedAt < TargetMs - GraceMs
       THEN "rescheduled"
       ELSE "ended"

\* the delay of the job a premature run re-adds
RemainingMs(startedAt, t) ==
  IF TargetMs - (t - startedAt) > GraceMs THEN TargetMs - (t - startedAt) ELSE GraceMs

JobReason(j) == IF j.endedReason = "" THEN "max_duration_reached" ELSE j.endedReason

\* any other job of the 'broadcasts' queue: the auto-end handler
AutoEndJob(j, again) ==
  /\ Deliverable(j) /\ j.name = "broadcast-auto-end"
  /\ completedJobIds' = DoneIds(j, again)
  /\ LET id == j.broadcastId
         rec == IF id \in RowIds THEN AutoEndSelect(broadcasts[id])
                ELSE [status |-> "none", streamRoomId |-> 0, startedAt |-> NullTime]
         d == AutoEndDecision(rec, now)
     IN  /\ lastEvent' = Event("auto-end", id, 0, d)
         /\ CASE d = "noop" ->
                   /\ broadcastQueue' = AfterJob(broadcastQueue, j, again)
                   /\ UNCHANGED <<broadcasts, notificationQueue, activeRelays, rooms,
                                  relayVars>>
              [] d = "rescheduled" ->
                   /\ broadcastQueue' =
                        QueueAdd(AfterJob(broadcastQueue, j, again), completedJobIds',
                                 BroadcastJob("broadcast-auto-end", id, JobReason(j),
                                              now + RemainingMs(rec.startedAt, now),
                                              <<id, now>>))
                   /\ UNCHANGED <<broadcasts, notificationQueue, activeRelays, rooms,
                                  relayVars>>
              [] OTHER ->
                   /\ broadcastQueue' = AfterJob(broadcastQueue, j, again)
                   /\ broadcasts' = [broadcasts EXCEPT ![id] =
                                       CompletedRow(broadcasts[id], now, JobReason(j))]
                   /\ notificationQueue' = Append(notificationQueue,
                         NotificationJob("broadcast-end", id, broadcasts[id].masjidId, ""))
                   /\ activeRelays' = StopHlsRelay(activeRelays, id)
                   /\ ffmpegProcs' = KillRelayProcess(ffmpegProcs, activeRelays, id, FALSE)
                   /\ egressSessions' = StopRelayEgress(egressSessions, activeRelays, id, FALSE)
                   /\ rooms' = DeleteLivekitRoom(rooms, rec.streamRoomId)
  /\ UNCHANGED <<now, procs, sweepLog, schedVars, notifyVars>>

(***************************************************************************)
(* worker.js: the 'notifications' queue worker                             *)
(***************************************************************************)
\* table subscriptions (unique per user and masjid); mutedPrayers is
\* preferences.mutedPrayers when that is an array, else empty
Subscription(u, m, isMuted, muteUntil, mutedPrayers) ==
  [userId |-> u, masjidId |-> m, isMuted |-> isMuted, muteUntil |-> muteUntil,
   mutedPrayers |-> mutedPrayers]

Subscriptions ==
  << Subscription(1, 1, FALSE, NullTime, {}),
     Subscription(2, 1, TRUE, NullTime, {}),
     Subscription(3, 1, FALSE, MinuteMs, {}),
     Subscription(4, 1, FALSE, NullTime, {"Fajr"}),
     Subscription(5, 2, FALSE, NullTime, {}) >>

\* table user_devices: platform is one of android, ios, web; a null token
\* is ""
UserDevice(id, u, platform, fcmToken, voipToken, isActive) ==
  [id |-> id, userId |-> u, platform |-> platform, fcmToken |-> fcmToken,
   voipToken |-> voipToken, isActive |-> isActive]

UserDevices ==
  << UserDevice(1, 1, "android", "fcm1", "", TRUE),
     UserDevice(2, 1, "ios", "fcm2", "", TRUE),
     UserDevice(3, 2, "android", "fcm3", "", TRUE),
     UserDevice(4, 3, "ios", "", "voip4", TRUE),
     UserDevice(5, 4, "web", "fcm5", "", TRUE),
     UserDevice(6, 4, "android", "fcm6", "", FALSE),
     UserDevice(7, 5, "android", "fcm7", "", TRUE) >>

\* the subscription row a joined record carries
SubscriptionOf(u, m) ==
  CHOOSE sub \in { subscriptions[i] : i \in DOMAIN subscriptions } :
     sub.userId = u /\ sub.masjidId = m

\* the handler's select: subscriptions of the masjid joined with the active
\* devices of their users
NotificationRecipients(m) ==
  SelectSeq(UserDevices,
            LAMBDA d : /\ d.isActive
                       /\ \E i \in DOMAIN subscriptions :
                             /\ subscriptions[i].userId = d.userId
                             /\ subscriptions[i].masjidId = m)

JobEventType(job) == IF job.name = "broadcast-end" THEN "end" ELSE "start"

\* a mute filter that forgets muteUntil
MuteFilterIgnoresMuteUntil(sub, t) == ~sub.isMuted

\* the isMuted and muteUntil checks: TRUE when the record passes
MuteFilter(sub, t) ==
  /\ ~sub.isMuted
  /\ ~(sub.muteUntil # NullTime /\ sub.muteUntil > t)

\* a prayer check that lets every record pass
NoPrayerFilter(sub, job) == TRUE

\* the mutedPrayers check: TRUE when the record passes
PrayerFilter(sub, job) ==
  ~(job.prayerName # "" /\ job.prayerName \in sub.mutedPrayers)

\* a choice of the send function by the tokens the device has
PushChannelByToken(d) == IF d.voipToken # "" THEN "voip" ELSE "data"

\* the send function the loop calls for a record: sendVoipPush for platform
\* ios, sendFcmData for every other platform
PushChannel(d) == IF d.platform = "ios" THEN "voip" ELSE "data"

\* the token handed to the send function
PushToken(d) == IF PushChannel(d) = "voip" THEN d.voipToken ELSE d.fcmToken

\* sendFcmData / sendVoipPush: their result object; rejected are the devices
\* whose token the provider refuses
SendResult(d, rejected) ==
  LET provider == IF PushChannel(d) = "voip" THEN "apns" ELSE "fcm"
  IN  IF PushToken(d) = ""
      THEN [status |-> "failed", provider |-> provider, error |-> "missing_token"]
      ELSE IF d.id \in rejected
      THEN [status |-> "failed", provider |-> provider, error |-> "provider_error"]
      ELSE [status |-> "sent", provider |-> provider, error |-> ""]

\* the records the loop does not skip
FanOutSurvivors(job, t) ==
  SelectSeq(NotificationRecipients(job.masjidId),
            LAMBDA d : /\ MuteFilter(SubscriptionOf(d.userId, job.masjidId), t)
                       /\ PrayerFilter(SubscriptionOf(d.userId, job.masjidId), job))

\* a fan-out whose first failed send throws out of the loop
FanOutLogsAbortOnFailure(ds, job, rejected) ==
  IF \E i \in DOMAIN ds : SendResult(ds[i], rejected).status = "failed"
  THEN <<>>
  ELSE [i \in DOMAIN ds |->
          [userId |-> ds[i].userId, deviceId |-> ds[i].id, masjidId |-> job.masjidId,
           broadcastId |-> job.broadcastId, status |-> "sent",
           provider |-> SendResult(ds[i], rejected).provider, error |-> ""]]

\* the rows pushed to logs, one per record the loop does not skip
FanOutLogs(ds, job, rejected) ==
  [i \in DOMAIN ds |->
     [userId |-> ds[i].userId, deviceId |-> ds[i].id, masjidId |-> job.masjidId,
      broadcastId |-> job.broadcastId,
      status |-> SendResult(ds[i], rejected).status,
      provider |-> SendResult(ds[i], rejected).provider,
      error |-> SendResult(ds[i], rejected).error]]

\* the payloads handed to the send functions
FanOutPushes(ds, job) ==
  [i \in DOMAIN ds |->
     [userId |-> ds[i].userId, deviceId |-> ds[i].id, masjidId |-> job.masjidId,
      broadcastId |-> job.broadcastId,
      action |-> IF JobEventType(job) = "start" THEN "GO_LIVE" ELSE "END",
      prayerName |-> job.prayerName,
      channel |-> PushChannel(ds[i]), token |-> PushToken(ds[i])]]

\* devices whose token a provider may refuse
RejectableDevices == {1, 4}

\* the handler of the 'notifications' queue, for the job at the head
NotificationsJob(rejected) ==
  /\ notificationQueue # <<>>
  /\ notificationQueue' = Tail(notificationQueue)
  /\ LET job == Head(notificationQueue)
     IN  IF job.broadcastId = 0 \/ job.masjidId = 0 \/ job.broadcastId \notin RowIds
         THEN UNCHANGED <<notificationLogs, pushes, lastEvent>>
         ELSE LET ds == FanOutSurvivors(job, now)
              IN  /\ pushes' = pushes \o FanOutPushes(ds, job)
                  /\ notificationLogs' = notificationLogs \o FanOutLogs(ds, job, rejected)
                  /\ lastEvent' = Event("notify", job.broadcastId, Len(ds), JobEventType(job))
  /\ UNCHANGED <<now, broadcasts, broadcastQueue, completedJobIds, activeRelays, rooms,
                 procs, sweepLog, schedVars, relayVars, subscriptions>>

(***************************************************************************)
(* subscription.controller.js: updateSubscription                          *)
(***************************************************************************)
\* a request body: each of preferences (its mutedPrayers), isMuted and
\* muteUntil is absent (<<>>) or carries one value
UpdateBody(preferences, isMuted, muteUntil) ==
  [preferences |-> preferences, isMuted |-> isMuted, muteUntil |-> muteUntil]

\* the values the update's set clause writes: preferences ?? {},
\* isMuted ?? false, muteUntil ? new Date(muteUntil) : null
UpdatedSubscription(sub, body) ==
  [sub EXCEPT !.mutedPrayers = IF body.preferences = <<>> THEN {} ELSE body.preferences[1],
              !.isMuted = IF body.isMuted = <<>> THEN FALSE ELSE body.isMuted[1],
              !.muteUntil = IF body.muteUntil = <<>> THEN NullTime ELSE body.muteUntil[1]]

\* the user has a subscription to the masjid
Subscribed(u, m) ==
  \E i \in DOMAIN subscriptions :
     subscriptions[i].userId = u /\ subscriptions[i].masjidId = m

\* updateSubscription by user u for masjid m
UpdateSubscription(u, m, body) ==
  /\ IF ~Subscribed(u, m)
     THEN /\ lastEvent' = Event("subscription", 0, 404, "not_found")
          /\ UNCHANGED subscriptions
     ELSE /\ subscriptions' =
                [i \in DOMAIN subscriptions |->
                   IF subscriptions[i].userId = u /\ subscriptions[i].masjidId = m
                   THEN UpdatedSubscription(subscriptions[i], body)
                   ELSE subscriptions[i]]
          /\ lastEvent' = Event("subscription", 0, 200, "updated")
  /\ UNCHANGED <<now, broadcasts, broadcastQueue, completedJobIds, notificationQueue,
                 activeRelays, rooms, procs, sweepLog, schedVars, relayVars,
                 notificationLogs, pushes>>

(***************************************************************************)
(* worker.js: the periodic sweep                                           *)
(***************************************************************************)
\* the rows the sweep's select is written to return
SweepExpired(t) ==
  LET cutoff == t - (IF MaxMinutes > 1 THEN MaxMinutes ELSE 1) * MinuteMs
  IN  { id \in RowIds : broadcasts[id].status = "live"
                        /\ broadcasts[id].startedAt # NullTime
                        /\ broadcasts[id].startedAt < cutoff }

RECURSIVE SweepJobs(_, _)
SweepJobs(q, ids) ==
  IF ids = {} THEN q
  ELSE LET id == CHOOSE x \in ids : \A y \in ids : x <= y
       IN  SweepJobs(Append(q, NotificationJob("broadcast-end", id,
                                               broadcasts[id].masjidId, "")),
                     ids \ {id})

\* cleanupExpiredBroadcasts: building the where clause calls lt, which
\* worker.js never imports, so the call throws a ReferenceError before the
\* select is issued; the caller's catch logs it.
CleanupExpiredBroadcasts ==
  /\ IF "lt" \notin WorkerDrizzleImports
     THEN /\ sweepLog' = "ReferenceError"
          /\ UNCHANGED <<broadcasts, notificationQueue, activeRelays, rooms, relayVars>>
     ELSE LET expired == SweepExpired(now)
          IN  /\ sweepLog' = "cleaned"
              /\ broadcasts' = [id \in RowIds |->
                                  IF id \in expired
                                  THEN CompletedRow(broadcasts[id], now, "max_duration_reached")
                                  ELSE broadcasts[id]]
              /\ notificationQueue' = SweepJobs(notificationQueue, expired)
              /\ activeRelays' = [k \in DOMAIN activeRelays \ expired |-> activeRelays[k]]
              /\ ffmpegProcs' =
                    [pid \in DOMAIN ffmpegProcs |->
                       IF \E id \in expired \cap DOMAIN activeRelays :
                             activeRelays[id].process = pid
                       THEN KillRelayProcess(ffmpegProcs, activeRelays,
                                             ffmpegProcs[pid].broadcastId, FALSE)[pid]
                       ELSE ffmpegProcs[pid]]
              /\ egressSessions' =
                    [e \in DOMAIN egressSessions |->
                       IF \E id \in expired \cap DOMAIN activeRelays :
                             activeRelays[id].egressId = e
                       THEN [egressSessions[e] EXCEPT !.active = FALSE]
                       ELSE egressSessions[e]]
              /\ rooms' = rooms \ { broadcasts[id].streamRoomId : id \in expired }
  /\ UNCHANGED <<now, broadcastQueue, completedJobIds, procs, lastEvent, schedVars,
                 notifyVars>>

(***************************************************************************)
(* Environment                                                             *)
(***************************************************************************)
\* time passes to a later sampled instant
AdvanceClock(t) ==
  /\ t \in Instants /\ t > now
  /\ now' = t
  /\ UNCHANGED <<broadcasts, broadcastQueue, completedJobIds, notificationQueue,
                 activeRelays, rooms, procs, lastEvent, sweepLog, schedVars, relayVars, notifyVars>>

\* a delayed job is lost by the queue before it is delivered
LoseJob(j) ==
  /\ j \in broadcastQueue /\ j.name = "broadcast-auto-end"
  /\ broadcastQueue' = broadcastQueue \ {j}
  /\ UNCHANGED <<now, broadcasts, completedJobIds, notificationQueue,
                 activeRelays, rooms, procs, lastEvent, sweepLog, schedVars, relayVars, notifyVars>>

(***************************************************************************)
(* Lifecycle specification: seeded rows, the controller, the worker        *)
(***************************************************************************)
\* Rows the planner or createBroadcast left behind, and rows an operator
\* marked failed: no code of the repository writes status failed, the
\* schema's enum admits it.
SeedRows ==
  { BroadcastRow(1, 0, "Fajr", "scheduled", 0),
    BroadcastRow(1, 1, "", "pending", NullTime),
    BroadcastRow(1, 0, "Fajr", "failed", 0) }

NoSweep == "none"

\* request bodies of endBroadcast: both optional fields absent, both present
EndBodies ==
  { [recordingUrl |-> "", endedReason |-> ""],
    [recordingUrl |-> "rec", endedReason |-> "manual"] }

Init ==
  /\ now = 0
  /\ broadcasts \in [1..NumRows -> SeedRows]
  /\ broadcastQueue = {}
  /\ completedJobIds = {}
  /\ notificationQueue = <<>>
  /\ activeRelays = NoRelays
  /\ ffmpegProcs = <<>>
  /\ egressSessions = <<>>
  /\ notificationLogs = <<>>
  /\ pushes = <<>>
  /\ rooms = {}
  /\ procs = [s \in Slots |-> Idle]
  /\ lastEvent = NoEvent
  /\ sweepLog = NoSweep
  /\ templates = <<>>
  /\ schedules = <<>>
  /\ lastCycle = NullTime
  /\ cycles = [c \in CycleIds |-> IdleCycle]
  /\ subscriptions = Subscriptions

Next ==
  \/ \E s \in Slots, id \in RequestIds : StartBroadcastRead(s, id)
  \/ \E s \in Slots, admin \in BOOLEAN : StartBroadcastCommit(s, admin)
  \/ \E id \in RequestIds, admin \in BOOLEAN, body \in EndBodies :
        EndBroadcast(id, admin, body.recordingUrl, body.endedReason)
  \/ \E id \in RequestIds : GetBroadcastToken(id)
  \/ \E j \in broadcastQueue, again \in BOOLEAN : AutoEndJob(j, again)
  \/ \E j \in broadcastQueue : HlsStartJob(j, FALSE)
  \/ \E j \in broadcastQueue : HlsStopJob(j, FALSE, FALSE, FALSE)
  \/ CleanupExpiredBroadcasts
  \/ \E t \in Instants : AdvanceClock(t)

Spec == Init /\ [][Next]_vars

(***************************************************************************)
(* Properties of the lifecycle (checked under Spec)                        *)
(***************************************************************************)
Terminal(status) == status \in {"completed", "failed"}

\* C1: once a broadcast's status is completed or failed, no step of any
\* operation changes its status again.
C1_TerminalStatusChanges ==
  [][\A id \in RowIds :
        Terminal(broadcasts[id].status) =>
           broadcasts'[id].status = broadcasts[id].status]_vars

PrematureFiring(j) ==
  /\ j.broadcastId \in RowIds
  /\ broadcasts[j.broadcastId].status = "live"
  /\ broadcasts[j.broadcastId].startedAt # NullTime
  /\ now - broadcasts[j.broadcastId].startedAt < TargetMs - GraceMs

\* C3: a premature firing of the auto-end handler leaves the broadcast live
\* and adds a new delayed auto-end job for it.
C3_PrematureReschedules ==
  [][\A j \in broadcastQueue, again \in BOOLEAN :
        (AutoEndJob(j, again) /\ PrematureFiring(j))
        => /\ broadcasts'[j.broadcastId].status = "live"
           /\ \E k \in broadcastQueue' \ broadcastQueue :
                 /\ k.name = "broadcast-auto-end"
                 /\ k.broadcastId = j.broadcastId
                 /\ k.due > now]_vars

\* the auto-end handler is handed a job for a live broadcast whose elapsed
\* time has reached the max duration
DueFiring(j) ==
  /\ j.broadcastId \in RowIds
  /\ broadcasts[j.broadcastId].status = "live"
  /\ broadcasts[j.broadcastId].startedAt # NullTime
  /\ now - broadcasts[j.broadcastId].startedAt >= TargetMs

\* C4: an auto-end firing at or after the max duration completes the
\* broadcast, sets endedAt, records the job's endedReason and adds exactly
\* one broadcast-end notification job.
C4_DueFiringEnds ==
  [][\A j \in broadcastQueue, again \in BOOLEAN :
        (AutoEndJob(j, again) /\ DueFiring(j))
        => /\ broadcasts'[j.broadcastId].status = "completed"
           /\ broadcasts'[j.broadcastId].endedAt = now
           /\ broadcasts'[j.broadcastId].endedReason = "max_duration_reached"
           /\ Len(notificationQueue') = Len(notificationQueue) + 1
           /\ SubSeq(notificationQueue', 1, Len(notificationQueue)) = notificationQueue
           /\ notificationQueue'[Len(notificationQueue')].name = "broadcast-end"
           /\ notificationQueue'[Len(notificationQueue')].broadcastId = j.broadcastId]_vars

\* a broadcast started at 0 was completed by the handler at exactly the max
\* duration
C4_Witness ==
  /\ lastEvent = Event("auto-end", 1, 0, "ended")
  /\ broadcasts[1].status = "completed"
  /\ broadcasts[1].startedAt = 0
  /\ broadcasts[1].endedAt = TargetMs
  /\ broadcasts[1].endedReason = "max_duration_reached"

\* C5: an auto-end firing for a broadcast that is not live changes no field
\* of any broadcast, adds no notification job, stops no relay and deletes no
\* room.
C5_StaleFiringNoOp ==
  [][\A j \in broadcastQueue, again \in BOOLEAN :
        (/\ AutoEndJob(j, again)
         /\ j.broadcastId \in RowIds
         /\ broadcasts[j.broadcastId].status # "live")
        => /\ broadcasts' = broadcasts
           /\ notificationQueue' = notificationQueue
           /\ activeRelays' = activeRelays
           /\ ffmpegProcs' = ffmpegProcs
           /\ egressSessions' = egressSessions
           /\ rooms' = rooms]_vars

\* the stale job fired after a manual end, with relay and room still there
C5_Witness ==
  /\ lastEvent = Event("auto-end", 1, 0, "noop")
  /\ broadcasts[1].status = "completed"
  /\ broadcasts[1].endedReason = "manual"
  /\ broadcasts[1].endedAt < now
  /\ 1 \in DOMAIN activeRelays
  /\ 1 \in rooms

\* C6: an execution of the sweep completes every live broadcast whose
\* startedAt is older than the max duration with reason
\* "max_duration_reached" and leaves every other broadcast unchanged.
C6_SweepCompletesExpired ==
  [][CleanupExpiredBroadcasts
     => \A id \in RowIds :
           IF /\ broadcasts[id].status = "live"
              /\ broadcasts[id].startedAt # NullTime
              /\ now - broadcasts[id].startedAt > TargetMs
           THEN /\ broadcasts'[id].status = "completed"
                /\ broadcasts'[id].endedReason = "max_duration_reached"
           ELSE broadcasts'[id] = broadcasts[id]]_vars

(***************************************************************************)
(* Properties of startBroadcast and endBroadcast (checked under Spec)      *)
(***************************************************************************)
\* C17: a startBroadcast call that finds the row live with its max duration
\* used up completes the row, enqueues the end notification and replies
\* Conflict.
C17_StartHealsExpired ==
  [][\A s \in Slots, id \in RowIds :
        (/\ StartBroadcastRead(s, id)
         /\ broadcasts[id].status = "live"
         /\ IsBroadcastExpired(broadcasts[id].startedAt, now))
        => /\ lastEvent'.code = 409
           /\ broadcasts'[id].status = "completed"
           /\ Len(notificationQueue') = Len(notificationQueue) + 1
           /\ notificationQueue'[Len(notificationQueue')].name = "broadcast-end"]_vars

\* C18: a startBroadcast call that replies success leaves the row live with
\* startedAt = now, appends one broadcast-start notification job, and leaves
\* in the queue one auto-end job keyed by the broadcast id that is due one
\* max duration from now.
C18_StartPostcondition ==
  [][\A s \in Slots :
        (/\ StartBroadcastCommit(s, TRUE)
         /\ lastEvent' = Event("start", procs[s].id, 200, "started"))
        => LET id == procs[s].id
           IN  /\ broadcasts'[id].status = "live"
               /\ broadcasts'[id].startedAt = now
               /\ Len(notificationQueue') = Len(notificationQueue) + 1
               /\ notificationQueue'[Len(notificationQueue')].name = "broadcast-start"
               /\ notificationQueue'[Len(notificationQueue')].broadcastId = id
               /\ Cardinality({ j \in broadcastQueue' :
                                  /\ j.name = "broadcast-auto-end"
                                  /\ j.jobId = <<id>> }) = 1
               /\ \A j \in broadcastQueue' :
                     (j.name = "broadcast-auto-end" /\ j.jobId = <<id>>)
                     => j.due = now + DEFAULT_BROADCAST_MAX_MINUTES * MinuteMs]_vars

\* C19: an authorised endBroadcast on a broadcast that is not completed
\* completes it, sets endedAt and appends one broadcast-end notification
\* job; on a completed broadcast it replies Conflict, changes no row and
\* enqueues nothing.
C19_EndFromAnyButCompleted ==
  [][\A id \in RowIds, body \in EndBodies :
        EndBroadcast(id, TRUE, body.recordingUrl, body.endedReason)
        => IF broadcasts[id].status = "completed"
           THEN /\ lastEvent' = Event("end", id, 409, "already_ended")
                /\ broadcasts' = broadcasts
                /\ notificationQueue' = notificationQueue
                /\ broadcastQueue' = broadcastQueue
           ELSE /\ lastEvent' = Event("end", id, 200, "ended")
                /\ broadcasts'[id].status = "completed"
                /\ broadcasts'[id].endedAt = now
                /\ Len(notificationQueue') = Len(notificationQueue) + 1
                /\ SubSeq(notificationQueue', 1, Len(notificationQueue)) = notificationQueue
                /\ notificationQueue'[Len(notificationQueue')].name = "broadcast-end"
                /\ notificationQueue'[Len(notificationQueue')].broadcastId = id]_vars

\* a broadcast that never went live was ended, and the next end request got
\* the Conflict reply
C19_Witness ==
  /\ lastEvent = Event("end", 1, 409, "already_ended")
  /\ broadcasts[1].status = "completed"
  /\ broadcasts[1].startedAt = NullTime
  /\ broadcasts[1].endedAt # NullTime


\* the broadcast-end jobs enqueued for a broadcast so far (no step of the
\* lifecycle specification takes a job off the 'notifications' queue)
EndJobsOf(id) ==
  { i \in DOMAIN notificationQueue :
      /\ notificationQueue[i].name = "broadcast-end"
      /\ notificationQueue[i].broadcastId = id }

\* C30: over the lifetime of a broadcast at most one broadcast-end
\* notification job is enqueued, whatever the interleaving of endBroadcast,
\* the auto-end handler, the sweep and the expiry marking of the start and
\* token endpoints.
C30_AtMostOneEndJob ==
  \A id \in RowIds : Cardinality(EndJobsOf(id)) <= 1

\* C31: of two startBroadcast calls that both passed the status checks on
\* the same pending or scheduled broadcast, the one that reaches its update
\* after the other made the broadcast live replies Conflict and enqueues no
\* broadcast-start notification job.
C31_OneStartWins ==
  [][\A s \in Slots :
        (/\ StartBroadcastCommit(s, TRUE)
         /\ broadcasts[procs[s].id].status = "live")
        => /\ lastEvent'.code = 409
           /\ notificationQueue' = notificationQueue]_vars

\* C32: once a broadcast has been completed (it has an endedAt), no step
\* changes its endedAt, endedReason or recordingUrl.
C32_CompletionFieldsFrozen ==
  [][\A id \in RowIds :
        broadcasts[id].endedAt # NullTime
        => /\ broadcasts'[id].endedAt = broadcasts[id].endedAt
           /\ broadcasts'[id].endedReason = broadcasts[id].endedReason
           /\ broadcasts'[id].recordingUrl = broadcasts[id].recordingUrl]_vars

\* C33: while a started broadcast is live, the 'broadcasts' queue holds an
\* auto-end job for it (no step of the lifecycle specification loses a job).
C33_AutoEndPending ==
  \A id \in RowIds :
     (broadcasts[id].status = "live" /\ broadcasts[id].startedAt # NullTime)
     => \E j \in broadcastQueue :
           j.name = "broadcast-auto-end" /\ j.broadcastId = id

(***************************************************************************)
(* Fair lifecycle: the worker keeps running, jobs can be lost              *)
(***************************************************************************)
\* The worker's setInterval keeps firing the sweep, BullMQ keeps handing
\* deliverable jobs to the handler, and time keeps passing; requests of
\* users are not owed to anyone.
FairNext ==
  \/ \E s \in Slots, id \in RequestIds : StartBroadcastRead(s, id)
  \/ \E s \in Slots, admin \in BOOLEAN : StartBroadcastCommit(s, admin)
  \/ \E j \in broadcastQueue, again \in BOOLEAN : AutoEndJob(j, again)
  \/ \E j \in broadcastQueue : HlsStartJob(j, FALSE)
  \/ \E j \in broadcastQueue : LoseJob(j)
  \/ CleanupExpiredBroadcasts
  \/ \E t \in Instants : AdvanceClock(t)

FairSpec ==
  /\ Init
  /\ [][FairNext]_vars
  /\ WF_vars(CleanupExpiredBroadcasts)
  /\ WF_vars(\E j \in broadcastQueue : AutoEndJob(j, FALSE))
  /\ WF_vars(\E j \in broadcastQueue : HlsStartJob(j, FALSE))
  /\ WF_vars(\E t \in Instants : AdvanceClock(t))

\* C7: every broadcast that is live past its max duration is eventually
\* completed, whatever happened to its delayed auto-end job, as long as the
\* sweep keeps running.
C7_LiveEventuallyCompleted ==
  \A id \in 1..NumRows :
     (/\ broadcasts[id].status = "live"
      /\ now - broadcasts[id].startedAt > TargetMs)
     ~> (broadcasts[id].status = "completed")

(***************************************************************************)
(* scheduler.js: the template expander and the broadcast planner           *)
(***************************************************************************)
\* table masjids: approval, activity and the zone's offset from UTC (a zone
\* name luxon does not know is valid = FALSE)
Masjids ==
  <<[isApproved |-> TRUE, isActive |-> TRUE,
     timezone |-> [valid |-> TRUE, offset |-> 5 * HourMs + 30 * MinuteMs]],
    [isApproved |-> TRUE, isActive |-> FALSE,
     timezone |-> [valid |-> TRUE, offset |-> 0]]>>

TemplateRow(m, p, adhan, iqamah, khutbah) ==
  [masjidId |-> m, prayerName |-> p, adhanTimeLocal |-> adhan,
   iqamahTimeLocal |-> iqamah, khutbahTimeLocal |-> khutbah]

\* a time of day luxon parses: milliseconds since local midnight
ValidLocalTime(t) == t >= 0 /\ t < DayMs

\* DateTime.now().setZone(zone).startOf('day').plus({days}).toISODate(), as
\* the number of the local day
LocalDate(t, zone, offset) == ((t + zone.offset) \div DayMs) + offset

\* a conversion that takes the local time for UTC
LocalToUtcNoZone(date, time, zone) == date * DayMs + time

\* DateTime.fromISO(date + 'T' + time, {zone}).toUTC()
LocalToUtc(date, time, zone) == date * DayMs + time - zone.offset

ScheduleRow(m, date, p, time, adhan, iqamah, khutbah) ==
  [masjidId |-> m, date |-> date, prayerName |-> p, time |-> time,
   adhanAtUtc |-> adhan, iqamahAtUtc |-> iqamah, khutbahAtUtc |-> khutbah]

\* an existence check that always finds nothing
NoExistingSchedule(rows, m, date, p) == FALSE

\* the expander's select before it inserts
ExistingSchedule(rows, m, date, p) ==
  \E i \in DOMAIN rows :
     rows[i].masjidId = m /\ rows[i].date = date /\ rows[i].prayerName = p

\* one pass of the inner loop body: the table after it, and whether it threw
ExpandOne(rows, tpl, offset, t) ==
  LET zone == Masjids[tpl.masjidId].timezone
      date == LocalDate(t, zone, offset)
      optional(time) == IF time = NullTime THEN NullTime
                        ELSE LocalToUtc(date, time, zone)
  IN  IF ~zone.valid THEN [rows |-> rows, threw |-> FALSE]
      ELSE IF ExistingSchedule(rows, tpl.masjidId, date, tpl.prayerName)
      THEN [rows |-> rows, threw |-> FALSE]
      ELSE IF ~ValidLocalTime(tpl.adhanTimeLocal)
      THEN [rows |-> rows, threw |-> FALSE]
      ELSE IF \/ (tpl.iqamahTimeLocal # NullTime /\ ~ValidLocalTime(tpl.iqamahTimeLocal))
              \/ (tpl.khutbahTimeLocal # NullTime /\ ~ValidLocalTime(tpl.khutbahTimeLocal))
      THEN [rows |-> rows, threw |-> TRUE]
      ELSE [rows |-> Append(rows,
                      ScheduleRow(tpl.masjidId, date, tpl.prayerName, tpl.adhanTimeLocal,
                                  LocalToUtc(date, tpl.adhanTimeLocal, zone),
                                  optional(tpl.iqamahTimeLocal),
                                  optional(tpl.khutbahTimeLocal))),
            threw |-> FALSE]

\* ensureDailySchedulesFromTemplates: templates in order, offsets 0 and 1;
\* an exception leaves the loops (the caller catches and logs it)
RECURSIVE EnsureDailySchedules(_, _, _, _, _)
EnsureDailySchedules(rows, tpls, i, offset, t) ==
  IF i > Len(tpls) THEN rows
  ELSE LET r == ExpandOne(rows, tpls[i], offset, t)
       IN  IF r.threw THEN r.rows
           ELSE IF offset = 0
                THEN EnsureDailySchedules(r.rows, tpls, i, 1, t)
                ELSE EnsureDailySchedules(r.rows, tpls, i + 1, 0, t)

\* getDayRange(date): the UTC calendar day holding the instant
GetDayRange(t) ==
  [startOfDay |-> (t \div DayMs) * DayMs, endOfDay |-> (t \div DayMs) * DayMs + DayMs]

InRange(t, range) == t # NullTime /\ t >= range.startOfDay /\ t < range.endOfDay

\* a duplicate check that looks at scheduledAt only
ExistingBroadcastByScheduledAt(rows, m, p, range) ==
  \E i \in DOMAIN rows :
     /\ rows[i].masjidId = m
     /\ rows[i].prayerName = p
     /\ rows[i].status # "failed"
     /\ rows[i].scheduledAt # NullTime
     /\ rows[i].scheduledAt >= range.startOfDay
     /\ rows[i].scheduledAt < range.endOfDay

\* the duplicate check of the planner and of createBroadcast
ExistingBroadcast(rows, m, p, range) ==
  \E i \in DOMAIN rows :
     /\ rows[i].masjidId = m
     /\ rows[i].prayerName = p
     /\ rows[i].status # "failed"
     /\ (InRange(rows[i].scheduledAt, range) \/ InRange(rows[i].startedAt, range))

\* a select whose window is shorter than the tick interval
UpcomingShortWindow(rows, t) ==
  LET windowEnd == t + 30 * 1000
  IN  SelectSeq(rows, LAMBDA r : /\ Masjids[r.masjidId].isApproved
                                 /\ Masjids[r.masjidId].isActive
                                 /\ r.adhanAtUtc >= t
                                 /\ r.adhanAtUtc < windowEnd)

\* a select that does not join the masjid's approval and activity
UpcomingAnyMasjid(rows, t) ==
  LET windowEnd == t + (IF PrepMinutes > 1 THEN PrepMinutes ELSE 1) * MinuteMs
  IN  SelectSeq(rows, LAMBDA r : r.adhanAtUtc >= t /\ r.adhanAtUtc < windowEnd)

\* the planner's select: occurrences of approved, active masjids whose adhan
\* instant lies in [now, windowEnd)
Upcoming(rows, t) ==
  LET windowEnd == t + (IF PrepMinutes > 1 THEN PrepMinutes ELSE 1) * MinuteMs
  IN  SelectSeq(rows, LAMBDA r : /\ Masjids[r.masjidId].isApproved
                                 /\ Masjids[r.masjidId].isActive
                                 /\ r.adhanAtUtc >= t
                                 /\ r.adhanAtUtc < windowEnd)

\* the planner's loop over the selected occurrences
RECURSIVE PlanBroadcasts(_, _)
PlanBroadcasts(rows, items) ==
  IF items = <<>> THEN rows
  ELSE LET item == Head(items)
           range == GetDayRange(item.adhanAtUtc)
       IN  PlanBroadcasts(
             IF ExistingBroadcast(rows, item.masjidId, item.prayerName, range)
             THEN rows
             ELSE Append(rows, BroadcastRow(item.masjidId, 0, item.prayerName,
                                            "scheduled", item.adhanAtUtc)),
             Tail(items))

\* runSchedulerCycle: the expander, then the planner
RunSchedulerCycle ==
  /\ schedules' = EnsureDailySchedules(schedules, templates, 1, 0, now)
  /\ broadcasts' = PlanBroadcasts(broadcasts, Upcoming(schedules', now))
  /\ lastCycle' = now
  /\ UNCHANGED <<now, broadcastQueue, completedJobIds, notificationQueue,
                 activeRelays, rooms, procs, lastEvent, sweepLog, templates, cycles,
                 relayVars, notifyVars>>

(***************************************************************************)
(* scheduler.js: one cycle, await by await                                 *)
(***************************************************************************)
\* the loop position after (i, offset)
NextOffset(cy) ==
  IF cy.offset = 0 THEN [cy EXCEPT !.offset = 1]
  ELSE [cy EXCEPT !.i = cy.i + 1, !.offset = 0]

\* the expander goes on with a template, or has run through them and the
\* cycle goes on to the planner's select
ExpandPhase(cy) ==
  [cy EXCEPT !.phase = IF cy.i > Len(templates) THEN "planSelect" ELSE "expandCheck",
             !.pending = <<>>]

\* setInterval's callback (and startScheduler's first call): the cycle
\* samples the clock and its expander selects the templates
CycleBegin(c) ==
  /\ cycles[c].phase = "idle"
  /\ cycles' = [cycles EXCEPT ![c] = ExpandPhase([IdleCycle EXCEPT !.t = now])]
  /\ lastCycle' = now
  /\ UNCHANGED <<now, broadcasts, broadcastQueue, completedJobIds, notificationQueue,
                 activeRelays, rooms, procs, lastEvent, sweepLog, templates, schedules,
                 relayVars, notifyVars>>

\* the expander's select of an existing occurrence and what follows it up
\* to the next await: continue, throw on a time that does not parse, or go
\* on to the insert with the row built
ExpandCheckStep(c) ==
  /\ cycles[c].phase = "expandCheck"
  /\ LET cy == cycles[c]
         r == ExpandOne(schedules, templates[cy.i], cy.offset, now)
     IN  cycles' = [cycles EXCEPT ![c] =
           IF r.threw
           THEN [cy EXCEPT !.phase = "planSelect", !.aborted = "invalid_time"]
           ELSE IF r.rows = schedules
           THEN ExpandPhase(NextOffset(cy))
           ELSE [cy EXCEPT !.phase = "expandInsert",
                           !.pending = <<r.rows[Len(r.rows)]>>]]
  /\ UNCHANGED <<now, broadcasts, broadcastQueue, completedJobIds, notificationQueue,
                 activeRelays, rooms, procs, lastEvent, sweepLog, templates, schedules,
                 lastCycle, relayVars, notifyVars>>

\* the expander's insert: the unique index schedule_day_prayer_uq rejects a
\* second row with the key, the exception leaves both loops and
\* runSchedulerCycle catches and logs it
ExpandInsertStep(c) ==
  /\ cycles[c].phase = "expandInsert"
  /\ LET cy == cycles[c]
         row == cy.pending[1]
     IN  IF ExistingSchedule(schedules, row.masjidId, row.date, row.prayerName)
         THEN /\ cycles' = [cycles EXCEPT ![c] =
                    [cy EXCEPT !.phase = "planSelect", !.pending = <<>>,
                               !.aborted = "unique_violation"]]
              /\ UNCHANGED schedules
         ELSE /\ schedules' = Append(schedules, row)
              /\ cycles' = [cycles EXCEPT ![c] = ExpandPhase(NextOffset(cy))]
  /\ UNCHANGED <<now, broadcasts, broadcastQueue, completedJobIds, notificationQueue,
                 activeRelays, rooms, procs, lastEvent, sweepLog, templates,
                 lastCycle, relayVars, notifyVars>>

\* the planner's select of the upcoming occurrences, with the instant the
\* cycle sampled at its start
PlanSelectStep(c) ==
  /\ cycles[c].phase = "planSelect"
  /\ cycles' = [cycles EXCEPT ![c] =
        [cycles[c] EXCEPT !.phase = "planCheck", !.items = Upcoming(schedules, cycles[c].t)]]
  /\ UNCHANGED <<now, broadcasts, broadcastQueue, completedJobIds, notificationQueue,
                 activeRelays, rooms, procs, lastEvent, sweepLog, templates, schedules,
                 lastCycle, relayVars, notifyVars>>

\* the planner's select of an existing broadcast for the occurrence at the
\* head: continue, or go on to the insert; with no occurrence left the
\* cycle returns
PlanCheckStep(c) ==
  /\ cycles[c].phase = "planCheck"
  /\ LET cy == cycles[c]
     IN  cycles' = [cycles EXCEPT ![c] =
           IF cy.items = <<>>
           THEN [cy EXCEPT !.phase = "idle"]
           ELSE IF ExistingBroadcast(broadcasts, Head(cy.items).masjidId,
                                     Head(cy.items).prayerName,
                                     GetDayRange(Head(cy.items).adhanAtUtc))
           THEN [cy EXCEPT !.items = Tail(cy.items)]
           ELSE [cy EXCEPT !.phase = "planInsert"]]
  /\ UNCHANGED <<now, broadcasts, broadcastQueue, completedJobIds, notificationQueue,
                 activeRelays, rooms, procs, lastEvent, sweepLog, templates, schedules,
                 lastCycle, relayVars, notifyVars>>

\* the planner's insert of a scheduled broadcast for the occurrence
PlanInsertStep(c) ==
  /\ cycles[c].phase = "planInsert"
  /\ LET item == Head(cycles[c].items)
     IN  broadcasts' = Append(broadcasts, BroadcastRow(item.masjidId, 0, item.prayerName,
                                                       "scheduled", item.adhanAtUtc))
  /\ cycles' = [cycles EXCEPT ![c] =
        [cycles[c] EXCEPT !.phase = "planCheck", !.items = Tail(cycles[c].items)]]
  /\ UNCHANGED <<now, broadcastQueue, completedJobIds, notificationQueue,
                 activeRelays, rooms, procs, lastEvent, sweepLog, templates, schedules,
                 lastCycle, relayVars, notifyVars>>

(***************************************************************************)
(* schedule.controller.js: createSchedule                                  *)
(***************************************************************************)
\* createSchedule(masjidId, date, prayerName, adhanTimeLocal) by an admin of
\* the masjid: the occurrence with the key is updated, or one is inserted
CreateSchedule(m, date, p, time) ==
  /\ Masjids[m].timezone.valid /\ ValidLocalTime(time)
  /\ LET zone == Masjids[m].timezone
         row == ScheduleRow(m, date, p, time, LocalToUtc(date, time, zone),
                            NullTime, NullTime)
     IN  schedules' =
           IF ExistingSchedule(schedules, m, date, p)
           THEN [i \in DOMAIN schedules |->
                   IF /\ schedules[i].masjidId = m
                      /\ schedules[i].date = date
                      /\ schedules[i].prayerName = p
                   THEN row ELSE schedules[i]]
           ELSE Append(schedules, row)
  /\ lastEvent' = Event("schedule", 0,
                        IF ExistingSchedule(schedules, m, date, p) THEN 200 ELSE 201,
                        "saved")
  /\ UNCHANGED <<now, broadcasts, broadcastQueue, completedJobIds, notificationQueue,
                 activeRelays, rooms, procs, sweepLog, templates, lastCycle, cycles,
                 relayVars, notifyVars>>

(***************************************************************************)
(* broadcast.controller.js: createBroadcast                                *)
(***************************************************************************)
\* manual rows a run may create
MaxManualRows == 1

ManualRows == { i \in RowIds : broadcasts[i].createdBy # 0 }

\* a status that does not depend on the planned start
CreateStatusAlwaysScheduled(sch) == "scheduled"

\* the status createBroadcast inserts: scheduled with a scheduledAt, pending
\* without one
CreateStatus(sch) == IF sch # NullTime THEN "scheduled" ELSE "pending"

\* createBroadcast(masjidId, prayerName?, scheduledAt?) by a user
CreateBroadcast(m, p, sch, admin) ==
  /\ Cardinality(ManualRows) < MaxManualRows
  /\ IF ~(Masjids[m].isApproved /\ Masjids[m].isActive) \/ ~admin
     THEN /\ lastEvent' = Event("create", 0, 403, "forbidden")
          /\ UNCHANGED <<broadcasts, rooms>>
     ELSE IF p # "" /\ sch # NullTime
             /\ ExistingBroadcast(broadcasts, m, p, GetDayRange(sch))
          THEN /\ lastEvent' = Event("create", 0, 409, "conflict")
               /\ UNCHANGED <<broadcasts, rooms>>
          ELSE LET id == Len(broadcasts) + 1
                   row == BroadcastRow(m, 1, p, CreateStatus(sch), sch)
               IN  /\ broadcasts' = Append(broadcasts,
                         IF LivekitConfigured THEN [row EXCEPT !.streamRoomId = id] ELSE row)
                   /\ rooms' = IF LivekitConfigured THEN rooms \cup {id} ELSE rooms
                   /\ lastEvent' = Event("create", id, 201, "created")
  /\ UNCHANGED <<now, broadcastQueue, completedJobIds, notificationQueue,
                 activeRelays, procs, sweepLog, schedVars, relayVars, notifyVars>>

(***************************************************************************)
(* Scheduler specification: templates, ticks, manual creation, starts      *)
(***************************************************************************)
\* days the scheduler clock runs through
SchedDays == 1

\* Fajr at 05:10 local for masjid 1 (23:40 UTC the day before), a Dhuhr
\* template whose adhan time does not parse; an inactive masjid 2 with the
\* same UTC instant; a Dhuhr template whose iqamah time does not parse, ahead
\* of the Fajr template
FajrLocal == 5 * HourMs + 10 * MinuteMs

TemplateTables ==
  { <<TemplateRow(1, "Fajr", FajrLocal, FajrLocal + 20 * MinuteMs, NullTime),
      TemplateRow(1, "Dhuhr", DayMs + HourMs, NullTime, NullTime)>>,
    <<TemplateRow(1, "Fajr", FajrLocal, NullTime, NullTime),
      TemplateRow(2, "Fajr", 23 * HourMs + 40 * MinuteMs, NullTime, NullTime)>>,
    <<TemplateRow(1, "Dhuhr", 12 * HourMs, DayMs + HourMs, NullTime),
      TemplateRow(1, "Fajr", FajrLocal, NullTime, NullTime)>> }

\* instants of a day the scheduler clock is sampled at: UTC midnight, local
\* midnight of masjid 1, and around the 23:40 adhan and its prep window
DayOffsets ==
  { 0, 18 * HourMs + 30 * MinuteMs, 23 * HourMs + 38 * MinuteMs,
    23 * HourMs + 39 * MinuteMs, 23 * HourMs + 40 * MinuteMs,
    23 * HourMs + 41 * MinuteMs }

SchedInstants == { d * DayMs + o : d \in 1..SchedDays, o \in DayOffsets }

SchedAdvanceClock(t) ==
  /\ t \in SchedInstants /\ t > now
  /\ now' = t
  /\ UNCHANGED <<broadcasts, broadcastQueue, completedJobIds, notificationQueue,
                 activeRelays, rooms, procs, lastEvent, sweepLog, schedVars, relayVars, notifyVars>>

\* the occurrence a createSchedule request carries: Fajr of local date 1 of
\* masjid 1 at 05:31 local, which is 00:01 UTC of day 1
ScheduleRequests ==
  { [masjidId |-> 1, date |-> 1, prayerName |-> "Fajr",
     time |-> 5 * HourMs + 31 * MinuteMs] }

\* scheduledAt values a createBroadcast request carries
RequestInstants == { NullTime, DayMs + 10 * HourMs }

SchedInit ==
  /\ now = DayMs
  /\ broadcasts = <<>>
  /\ broadcastQueue = {}
  /\ completedJobIds = {}
  /\ notificationQueue = <<>>
  /\ activeRelays = NoRelays
  /\ ffmpegProcs = <<>>
  /\ egressSessions = <<>>
  /\ notificationLogs = <<>>
  /\ pushes = <<>>
  /\ rooms = {}
  /\ procs = [s \in Slots |-> Idle]
  /\ lastEvent = NoEvent
  /\ sweepLog = NoSweep
  /\ templates \in TemplateTables
  /\ schedules = <<>>
  /\ lastCycle = NullTime
  /\ cycles = [c \in CycleIds |-> IdleCycle]
  /\ subscriptions = Subscriptions

SchedNext ==
  \/ RunSchedulerCycle
  \/ \E m \in DOMAIN Masjids, p \in {"", "Fajr"}, sch \in RequestInstants, admin \in BOOLEAN :
        CreateBroadcast(m, p, sch, admin)
  \/ \E r \in ScheduleRequests : CreateSchedule(r.masjidId, r.date, r.prayerName, r.time)
  \/ \E id \in RequestIds : StartBroadcastRead(1, id)
  \/ \E admin \in BOOLEAN : StartBroadcastCommit(1, admin)
  \/ \E t \in SchedInstants : SchedAdvanceClock(t)

SchedSpec == SchedInit /\ [][SchedNext]_vars

(***************************************************************************)
(* Properties of the scheduler (checked under SchedSpec)                   *)
(***************************************************************************)
UtcDay(t) == t \div DayMs

\* the UTC calendar days a broadcast row occupies
DaysOf(row) ==
  { UtcDay(t) : t \in {row.scheduledAt, row.startedAt} \ {NullTime} }

\* C8: no two non-failed broadcasts of the same masjid and prayer have a
\* scheduledAt or startedAt in the same UTC calendar day.
C8_OnePerPrayerDay ==
  \A i \in RowIds, j \in RowIds :
     (/\ i < j
      /\ broadcasts[i].status # "failed" /\ broadcasts[j].status # "failed"
      /\ broadcasts[i].masjidId = broadcasts[j].masjidId
      /\ broadcasts[i].prayerName # ""
      /\ broadcasts[i].prayerName = broadcasts[j].prayerName)
     => DaysOf(broadcasts[i]) \cap DaysOf(broadcasts[j]) = {}

\* the rows a state holds for an occurrence: same masjid and prayer, not
\* failed, scheduledAt or startedAt inside the occurrence's UTC day
Covering(rows, occ) ==
  { i \in DOMAIN rows :
      /\ rows[i].masjidId = occ.masjidId
      /\ rows[i].prayerName = occ.prayerName
      /\ rows[i].status # "failed"
      /\ UtcDay(occ.adhanAtUtc) \in DaysOf(rows[i]) }

\* the rows the planner made for an occurrence
PlannedFor(rows, occ) ==
  { i \in DOMAIN rows :
      /\ rows[i].createdBy = 0
      /\ rows[i].masjidId = occ.masjidId
      /\ rows[i].prayerName = occ.prayerName
      /\ rows[i].scheduledAt = occ.adhanAtUtc }

\* the occurrences a tick at t has in its prep window
InWindow(rows, t) ==
  { rows[i] : i \in { k \in DOMAIN rows :
                        /\ Masjids[rows[k].masjidId].isApproved
                        /\ Masjids[rows[k].masjidId].isActive
                        /\ rows[k].adhanAtUtc >= t
                        /\ rows[k].adhanAtUtc < t + PrepMinutes * MinuteMs } }

\* C9: a planner tick inserts a broadcast for an upcoming occurrence exactly
\* when no non-failed broadcast of the masjid and prayer covers the
\* occurrence's UTC day, it changes no existing row, and after the tick the
\* planner has made at most one broadcast for the occurrence.
C9_PlannerInsertsIffUncovered ==
  [][RunSchedulerCycle
     => /\ SubSeq(broadcasts', 1, Len(broadcasts)) = broadcasts
        /\ \A occ \in InWindow(schedules', now) :
              /\ (PlannedFor(broadcasts', occ) \ RowIds # {})
                    <=> (Covering(broadcasts, occ) = {})
              /\ Cardinality(PlannedFor(broadcasts', occ)) <= 1
              /\ Covering(broadcasts', occ) # {}]_vars

\* a tick at 23:39 made the broadcast, it was started, and the tick at 23:40
\* found the same occurrence in its window again
C9_Witness ==
  /\ lastCycle = DayMs + 23 * HourMs + 40 * MinuteMs
  /\ \E i \in RowIds :
        /\ broadcasts[i].createdBy = 0
        /\ broadcasts[i].status = "live"
        /\ broadcasts[i].startedAt = DayMs + 23 * HourMs + 39 * MinuteMs
        /\ broadcasts[i].scheduledAt = lastCycle

\* C10: an expander run in the same local day of a masjid as the run before
\* it inserts no occurrence for that masjid and changes none, and the
\* occurrences have distinct (masjid, date, prayer) keys.
C10_ExpanderIdempotent ==
  [][RunSchedulerCycle
     => /\ \A i \in DOMAIN schedules', k \in DOMAIN schedules' :
              (/\ schedules'[i].masjidId = schedules'[k].masjidId
               /\ schedules'[i].date = schedules'[k].date
               /\ schedules'[i].prayerName = schedules'[k].prayerName) => i = k
        /\ SubSeq(schedules', 1, Len(schedules)) = schedules
        /\ \A m \in DOMAIN Masjids :
              (/\ lastCycle # NullTime
               /\ LocalDate(lastCycle, Masjids[m].timezone, 0)
                     = LocalDate(now, Masjids[m].timezone, 0))
              => \A i \in DOMAIN schedules' \ DOMAIN schedules :
                    schedules'[i].masjidId # m]_vars

\* two runs in one local day of masjid 1 (the one that made the broadcast
\* started at 23:40, and the one at 23:41): the two dates, each once
C10_Witness ==
  /\ lastCycle = DayMs + 23 * HourMs + 41 * MinuteMs
  /\ \E i \in RowIds : /\ broadcasts[i].createdBy = 0
                       /\ broadcasts[i].startedAt = DayMs + 23 * HourMs + 40 * MinuteMs
  /\ Cardinality({ i \in DOMAIN schedules : schedules[i].masjidId = 1 }) = 2

\* a template the expander can turn into occurrences
ValidTemplate(tpl) ==
  /\ Masjids[tpl.masjidId].timezone.valid
  /\ ValidLocalTime(tpl.adhanTimeLocal)
  /\ tpl.iqamahTimeLocal # NullTime => ValidLocalTime(tpl.iqamahTimeLocal)
  /\ tpl.khutbahTimeLocal # NullTime => ValidLocalTime(tpl.khutbahTimeLocal)

C23_ExpanderCoversTwoDays ==
  [][(RunSchedulerCycle /\ \A i \in DOMAIN templates : ValidTemplate(templates[i]))
     => /\ \A i \in DOMAIN templates, offset \in {0, 1} :
              \E k \in DOMAIN schedules' :
                 /\ schedules'[k].masjidId = templates[i].masjidId
                 /\ schedules'[k].prayerName = templates[i].prayerName
                 /\ schedules'[k].date =
                       ((now + Masjids[templates[i].masjidId].timezone.offset) \div DayMs)
                          + offset
        /\ \A k \in DOMAIN schedules' \ DOMAIN schedules :
              \E i \in DOMAIN templates :
                 /\ schedules'[k].masjidId = templates[i].masjidId
                 /\ schedules'[k].prayerName = templates[i].prayerName
                 /\ schedules'[k].adhanAtUtc =
                       schedules'[k].date * DayMs + templates[i].adhanTimeLocal
                          - Masjids[templates[i].masjidId].timezone.offset]_vars

\* a run at UTC midnight of day 1 (05:30 local of masjid 1) made the Fajr
\* occurrences of local dates 1 and 2: 05:10 local is 23:40 UTC of the day
\* before
C23_Witness ==
  /\ lastCycle = DayMs
  /\ \A i \in DOMAIN templates : ValidTemplate(templates[i])
  /\ \E k \in DOMAIN schedules :
        /\ schedules[k].masjidId = 1 /\ schedules[k].date = 1
        /\ schedules[k].adhanAtUtc = 23 * HourMs + 40 * MinuteMs
  /\ \E k \in DOMAIN schedules :
        /\ schedules[k].masjidId = 1 /\ schedules[k].date = 2
        /\ schedules[k].adhanAtUtc = DayMs + 23 * HourMs + 40 * MinuteMs
  /\ Len(schedules) = 2 * Len(templates)

\* the planner's rows for occurrences of the same masjid and prayer on
\* another local date than the occurrence's
OtherDateRows(rows, occs, occ) ==
  { i \in DOMAIN rows :
      /\ rows[i].createdBy = 0
      /\ \E k \in DOMAIN occs :
            /\ occs[k].masjidId = occ.masjidId
            /\ occs[k].prayerName = occ.prayerName
            /\ occs[k].date # occ.date
            /\ occs[k].adhanAtUtc = rows[i].scheduledAt }

\* C27: a planner tick that has an occurrence in its window leaves it with a
\* broadcast of its own whenever the only broadcasts found for its masjid,
\* prayer and UTC day are the planner's broadcasts of occurrences of other
\* local dates.
C27_OccurrencesIndependent ==
  [][RunSchedulerCycle
     => \A occ \in InWindow(schedules', now) :
           Covering(broadcasts, occ) \subseteq OtherDateRows(broadcasts, schedules', occ)
           => PlannedFor(broadcasts', occ) # {}]_vars

\* C29: in every state a broadcast with status scheduled has a scheduledAt
\* and a broadcast with status pending has none, whether the planner or
\* createBroadcast made it.
C29_ScheduledHasPlannedStart ==
  \A i \in RowIds :
     /\ broadcasts[i].status = "scheduled" => broadcasts[i].scheduledAt # NullTime
     /\ broadcasts[i].status = "pending" => broadcasts[i].scheduledAt = NullTime

\* a pending broadcast made by createBroadcast without a scheduledAt next to
\* a scheduled broadcast made by the planner
C29_Witness ==
  /\ \E i \in RowIds :
        /\ broadcasts[i].createdBy # 0
        /\ broadcasts[i].status = "pending"
        /\ broadcasts[i].scheduledAt = NullTime
  /\ \E i \in RowIds :
        /\ broadcasts[i].createdBy = 0
        /\ broadcasts[i].status = "scheduled"
        /\ broadcasts[i].scheduledAt = DayMs + 23 * HourMs + 40 * MinuteMs

(***************************************************************************)
(* Overlap specification: scheduler cycles that outlast the tick interval  *)
(***************************************************************************)
\* env.SCHEDULER_INTERVAL_SECONDS is left unset
IntervalSeconds == 60

IntervalMs == (IF IntervalSeconds > 10 THEN IntervalSeconds ELSE 10) * 1000

\* setInterval(runSchedulerCycle, intervalMs): a tick starts a cycle one
\* interval or more after the cycle before it started, without waiting for
\* that cycle to return
TickDue == lastCycle = NullTime \/ now >= lastCycle + IntervalMs

\* the clock does not run past a tick while a cycle is in flight: the
\* cycles that overlap are those of consecutive ticks
NoTickSkipped(t) ==
  \/ \A c \in CycleIds : cycles[c].phase = "idle"
  \/ t <= lastCycle + IntervalMs

OverlapNext ==
  \/ \E c \in CycleIds : TickDue /\ CycleBegin(c)
  \/ \E c \in CycleIds : ExpandCheckStep(c)
  \/ \E c \in CycleIds : ExpandInsertStep(c)
  \/ \E c \in CycleIds : PlanSelectStep(c)
  \/ \E c \in CycleIds : PlanCheckStep(c)
  \/ \E c \in CycleIds : PlanInsertStep(c)
  \/ \E t \in SchedInstants : NoTickSkipped(t) /\ SchedAdvanceClock(t)

OverlapSpec == SchedInit /\ [][OverlapNext]_vars

\* the planner's broadcasts for an occurrence
OccurrenceBroadcasts(occ) ==
  { i \in RowIds : /\ broadcasts[i].createdBy = 0
                   /\ broadcasts[i].masjidId = occ.masjidId
                   /\ broadcasts[i].prayerName = occ.prayerName
                   /\ broadcasts[i].scheduledAt = occ.adhanAtUtc }

\* C36: with cycles overlapping, every occurrence has at most one broadcast
\* made by the planner, and no cycle's expander is ended by an insert that
\* collides with a row another cycle inserted.
C36_OverlapSafe ==
  /\ \A k \in DOMAIN schedules : Cardinality(OccurrenceBroadcasts(schedules[k])) <= 1
  /\ \A c \in CycleIds : cycles[c].aborted # "unique_violation"

\* the two halves of C36, each on its own
OverlapOneBroadcast ==
  \A k \in DOMAIN schedules : Cardinality(OccurrenceBroadcasts(schedules[k])) <= 1

OverlapNoAbort == \A c \in CycleIds : cycles[c].aborted # "unique_violation"

(***************************************************************************)
(* Tick specification: a cycle at every tick of the interval               *)
(***************************************************************************)
\* the instants the scheduler process may come up at on day 1: before the
\* 23:40 adhan at four phases of the minute, and after it
TickStarts ==
  { DayMs + 23 * HourMs + 37 * MinuteMs,
    DayMs + 23 * HourMs + 37 * MinuteMs + 15 * 1000,
    DayMs + 23 * HourMs + 37 * MinuteMs + 30 * 1000,
    DayMs + 23 * HourMs + 38 * MinuteMs + 59 * 1000,
    DayMs + 23 * HourMs + 40 * MinuteMs + 30 * 1000 }

\* the instant the run stops ticking at
TickEnd == DayMs + 23 * HourMs + 42 * MinuteMs

\* the timer: the clock reaches the next tick once the cycle of this tick
\* has run
SchedulerTick ==
  /\ lastCycle = now
  /\ now + IntervalMs <= TickEnd
  /\ now' = now + IntervalMs
  /\ UNCHANGED <<broadcasts, broadcastQueue, completedJobIds, notificationQueue,
                 activeRelays, rooms, procs, lastEvent, sweepLog, schedVars, relayVars,
                 notifyVars>>

TickInit ==
  /\ now \in TickStarts
  /\ broadcasts = <<>>
  /\ broadcastQueue = {}
  /\ completedJobIds = {}
  /\ notificationQueue = <<>>
  /\ activeRelays = NoRelays
  /\ ffmpegProcs = <<>>
  /\ egressSessions = <<>>
  /\ notificationLogs = <<>>
  /\ pushes = <<>>
  /\ rooms = {}
  /\ procs = [s \in Slots |-> Idle]
  /\ lastEvent = NoEvent
  /\ sweepLog = NoSweep
  /\ templates \in TemplateTables
  /\ schedules = <<>>
  /\ lastCycle = NullTime
  /\ cycles = [c \in CycleIds |-> IdleCycle]
  /\ subscriptions = Subscriptions

TickNext ==
  \/ lastCycle # now /\ RunSchedulerCycle
  \/ SchedulerTick
  \/ \E m \in DOMAIN Masjids, p \in {"", "Fajr"}, sch \in RequestInstants, admin \in BOOLEAN :
        CreateBroadcast(m, p, sch, admin)
  \/ \E id \in RequestIds : StartBroadcastRead(1, id)
  \/ \E admin \in BOOLEAN : StartBroadcastCommit(1, admin)

TickSpec == TickInit /\ [][TickNext]_vars

\* the last tick at or before the instant has run: the next one comes after
\* the instant
LastTickBefore(t) == lastCycle # NullTime /\ lastCycle <= t /\ t < lastCycle + IntervalMs

\* C37: once the last tick at or before an occurrence's adhan instant has
\* run, a non-failed broadcast of the occurrence's masjid and prayer exists
\* for the adhan's day (the planner's, unless one existed already), for
\* every occurrence of an approved, active masjid.
C37_BroadcastBeforeAdhan ==
  \A k \in DOMAIN schedules :
     (/\ Masjids[schedules[k].masjidId].isApproved
      /\ Masjids[schedules[k].masjidId].isActive
      /\ LastTickBefore(schedules[k].adhanAtUtc))
     => ExistingBroadcast(broadcasts, schedules[k].masjidId, schedules[k].prayerName,
                          GetDayRange(schedules[k].adhanAtUtc))

\* the tick at 23:39:30 is the last one before the 23:40 adhan, no broadcast
\* existed for Fajr, and the planner's broadcast for the occurrence is there
\* before the clock has moved on
C37_Witness ==
  /\ lastCycle = DayMs + 23 * HourMs + 39 * MinuteMs + 30 * 1000
  /\ now = lastCycle
  /\ \E k \in DOMAIN schedules :
        /\ schedules[k].masjidId = 1
        /\ schedules[k].adhanAtUtc = DayMs + 23 * HourMs + 40 * MinuteMs
        /\ Covering(broadcasts, schedules[k]) # {}
  /\ \A i \in RowIds : broadcasts[i].createdBy = 0

(***************************************************************************)
(* Notification specification: starts and ends feed the fan-out            *)
(***************************************************************************)
\* what the 'notifications' queue holds when the worker comes up: nothing,
\* or an end job whose payload carries a prayerName
InitialNotificationQueues ==
  { <<>>, <<NotificationJob("broadcast-end", 1, 1, "Fajr")>> }

NotifyInit ==
  /\ now = 0
  /\ broadcasts \in [1..NumRows -> SeedRows]
  /\ broadcastQueue = {}
  /\ completedJobIds = {}
  /\ notificationQueue \in InitialNotificationQueues
  /\ activeRelays = NoRelays
  /\ ffmpegProcs = <<>>
  /\ egressSessions = <<>>
  /\ notificationLogs = <<>>
  /\ pushes = <<>>
  /\ rooms = {}
  /\ procs = [s \in Slots |-> Idle]
  /\ lastEvent = NoEvent
  /\ sweepLog = NoSweep
  /\ templates = <<>>
  /\ schedules = <<>>
  /\ lastCycle = NullTime
  /\ cycles = [c \in CycleIds |-> IdleCycle]
  /\ subscriptions = Subscriptions

NotifyNext ==
  \/ \E id \in RequestIds : StartBroadcastRead(1, id)
  \/ StartBroadcastCommit(1, TRUE)
  \/ \E id \in RequestIds : EndBroadcast(id, TRUE, "", "")
  \/ \E rejected \in SUBSET RejectableDevices : NotificationsJob(rejected)
  \/ \E t \in Instants : AdvanceClock(t)

NotifySpec == NotifyInit /\ [][NotifyNext]_vars

\* the rows and payloads a step appends
NewLogs == { notificationLogs'[i] : i \in DOMAIN notificationLogs' \ DOMAIN notificationLogs }

NewPushes == { pushes'[i] : i \in DOMAIN pushes' \ DOMAIN pushes }

\* the subscription is muted at instant t
MutedAt(sub, t) == sub.isMuted \/ (sub.muteUntil # NullTime /\ sub.muteUntil > t)

\* C12: no step appends a NotificationLog row or sends a push for a
\* subscription that has isMuted set or a muteUntil later than the instant
\* of processing.
C12_MutedNeverNotified ==
  [][/\ \A row \in NewLogs : ~MutedAt(SubscriptionOf(row.userId, row.masjidId), now)
     /\ \A push \in NewPushes : ~MutedAt(SubscriptionOf(push.userId, push.masjidId), now)]_vars

\* a fan-out at instant 0 reached the subscriber of masjid 1 and neither the
\* isMuted subscriber nor the one muted until one minute later
C12_Witness ==
  /\ lastEvent.op = "notify"
  /\ now = 0
  /\ \E i \in DOMAIN notificationLogs : notificationLogs[i].userId = 1
  /\ \A i \in DOMAIN notificationLogs : notificationLogs[i].userId \notin {2, 3}
  /\ \A i \in DOMAIN pushes : pushes[i].userId \notin {2, 3}

\* C13: no GO_LIVE push is sent to a subscriber whose mutedPrayers holds the
\* prayerName of the broadcast that was started.
C13_MutedPrayerNoStart ==
  [][\A push \in NewPushes :
        push.action = "GO_LIVE"
        => broadcasts[push.broadcastId].prayerName
              \notin SubscriptionOf(push.userId, push.masjidId).mutedPrayers]_vars

\* the Fajr broadcast was started and its fan-out ran after the temporary
\* mute ran out: subscribers 1 and 3 got GO_LIVE, subscriber 4 (Fajr muted)
\* did not
C13_Witness ==
  /\ broadcasts[1].prayerName = "Fajr"
  /\ lastEvent = Event("notify", 1, 3, "start")
  /\ \E i \in DOMAIN pushes : pushes[i].action = "GO_LIVE" /\ pushes[i].userId = 3
  /\ \A i \in DOMAIN pushes : pushes[i].action = "GO_LIVE" => pushes[i].userId # 4

\* the handler takes an end job for an existing broadcast off the queue
EndFanOut ==
  /\ notificationQueue # <<>>
  /\ notificationQueue' = Tail(notificationQueue)
  /\ Head(notificationQueue).name = "broadcast-end"
  /\ Head(notificationQueue).broadcastId \in RowIds

FanOut ==
  /\ notificationQueue # <<>>
  /\ notificationQueue' = Tail(notificationQueue)
  /\ Head(notificationQueue).broadcastId \in RowIds

\* the devices a fan-out owes a row: active, subscribed to the job's masjid,
\* not muted, and for a job with a prayerName not muted for that prayer
OwedDevices(job, t) ==
  { UserDevices[i].id : i \in
      { n \in DOMAIN UserDevices :
          /\ UserDevices[n].isActive
          /\ \E k \in DOMAIN subscriptions :
                /\ subscriptions[k].userId = UserDevices[n].userId
                /\ subscriptions[k].masjidId = job.masjidId
                /\ ~MutedAt(subscriptions[k], t)
                /\ (job.prayerName = "" \/ job.prayerName \notin subscriptions[k].mutedPrayers) } }

\* C20: a fan-out appends exactly one NotificationLog row, with status sent
\* or failed, for every device that survives the mute filters, whichever
\* sends failed.
C20_OneLogPerRecipient ==
  [][FanOut
     => LET job == Head(notificationQueue)
            new == DOMAIN notificationLogs' \ DOMAIN notificationLogs
        IN  /\ SubSeq(notificationLogs', 1, Len(notificationLogs)) = notificationLogs
            /\ \A d \in OwedDevices(job, now) :
                  Cardinality({ i \in new : notificationLogs'[i].deviceId = d }) = 1
            /\ \A i \in new :
                  /\ notificationLogs'[i].deviceId \in OwedDevices(job, now)
                  /\ notificationLogs'[i].broadcastId = job.broadcastId
                  /\ notificationLogs'[i].status \in {"sent", "failed"}]_vars

\* one fan-out logged a send the provider refused, a send without a token
\* and a send that went through
C20_Witness ==
  /\ lastEvent.op = "notify"
  /\ Len(notificationLogs) = lastEvent.code
  /\ \E i \in DOMAIN notificationLogs :
        notificationLogs[i].status = "failed" /\ notificationLogs[i].error = "provider_error"
  /\ \E i \in DOMAIN notificationLogs :
        notificationLogs[i].status = "failed" /\ notificationLogs[i].error = "missing_token"
  /\ \E i \in DOMAIN notificationLogs : notificationLogs[i].status = "sent"

\* C28: every push of a fan-out goes out on the channel of the device's
\* platform: the VoIP path with the device's voipToken for ios, the
\* data-message path with the device's fcmToken for android and web; every
\* device the fan-out logs got its push.
C28_ChannelByPlatform ==
  [][FanOut
     => /\ \A push \in NewPushes :
              \E i \in DOMAIN UserDevices :
                 /\ UserDevices[i].id = push.deviceId
                 /\ UserDevices[i].platform = "ios"
                       => push.channel = "voip" /\ push.token = UserDevices[i].voipToken
                 /\ UserDevices[i].platform \in {"android", "web"}
                       => push.channel = "data" /\ push.token = UserDevices[i].fcmToken
        /\ { row.deviceId : row \in NewLogs } = { push.deviceId : push \in NewPushes }]_vars

\* one fan-out pushed to an android device, to a web device, to an ios
\* device with a voipToken and to an ios device that has an fcmToken only
C28_Witness ==
  /\ lastEvent.op = "notify"
  /\ Len(pushes) = lastEvent.code
  /\ \E i \in DOMAIN pushes : pushes[i].deviceId = 1 /\ pushes[i].channel = "data"
  /\ \E i \in DOMAIN pushes : pushes[i].deviceId = 5 /\ pushes[i].channel = "data"
  /\ \E i \in DOMAIN pushes : pushes[i].deviceId = 4 /\ pushes[i].token = "voip4"
  /\ \E i \in DOMAIN pushes :
        /\ pushes[i].deviceId = 2 /\ pushes[i].channel = "voip" /\ pushes[i].token = ""

\* C38: no step sends a GO_LIVE push for a broadcast whose persisted status
\* is completed, nor to a device that was already sent an END push for the
\* same broadcast.
C38_NoGoLiveAfterEnd ==
  [][\A push \in NewPushes :
        push.action = "GO_LIVE"
        => /\ broadcasts[push.broadcastId].status # "completed"
           /\ ~\E i \in DOMAIN pushes :
                 /\ pushes[i].broadcastId = push.broadcastId
                 /\ pushes[i].deviceId = push.deviceId
                 /\ pushes[i].action = "END"]_vars

(***************************************************************************)
(* Subscription specification: preference updates between fan-outs         *)
(***************************************************************************)
\* the users that send updates for masjid 1: the muted subscriber, the one
\* muted until MinuteMs, and a user subscribed to masjid 2 only
UpdatingUsers == {2, 3, 5}

\* the bodies they send: preferences only, isMuted only, muteUntil only,
\* and an empty object
UpdateBodies ==
  { UpdateBody(<<{"Fajr"}>>, <<>>, <<>>),
    UpdateBody(<<>>, <<TRUE>>, <<>>),
    UpdateBody(<<>>, <<>>, <<MinuteMs>>),
    UpdateBody(<<>>, <<>>, <<>>) }

SubsNext ==
  \/ \E id \in RequestIds : StartBroadcastRead(1, id)
  \/ StartBroadcastCommit(1, TRUE)
  \/ \E id \in RequestIds : EndBroadcast(id, TRUE, "", "")
  \/ NotificationsJob({})
  \/ \E u \in UpdatingUsers, body \in UpdateBodies : UpdateSubscription(u, 1, body)

SubsSpec == NotifyInit /\ [][SubsNext]_vars

\* C39: an update of an existing subscription leaves every field the
\* request does not carry as it was: a body with preferences only changes
\* neither isMuted nor muteUntil.
C39_UpdateKeepsAbsentFields ==
  [][\A u \in UpdatingUsers, body \in UpdateBodies :
        (UpdateSubscription(u, 1, body) /\ Subscribed(u, 1))
        => /\ body.isMuted = <<>>
                 => SubscriptionOf(u, 1)'.isMuted = SubscriptionOf(u, 1).isMuted
           /\ body.muteUntil = <<>>
                 => SubscriptionOf(u, 1)'.muteUntil = SubscriptionOf(u, 1).muteUntil
           /\ body.preferences = <<>>
                 => SubscriptionOf(u, 1)'.mutedPrayers = SubscriptionOf(u, 1).mutedPrayers]_vars

\* the consequence C39 names: the subscriber whose row was seeded with
\* isMuted set is sent nothing as long as no request of theirs carries
\* isMuted
MutedStaysExcluded ==
  \A i \in DOMAIN pushes : pushes[i].userId # 2

(***************************************************************************)
(* Relay specification: hls-start / hls-stop jobs and process exits        *)
(***************************************************************************)
\* transcoding processes a run may spawn
MaxSpawned == 2

RelayNext ==
  \/ \E id \in RequestIds : StartBroadcastRead(1, id)
  \/ StartBroadcastCommit(1, TRUE)
  \/ \E id \in RequestIds : EndBroadcast(id, TRUE, "", "")
  \/ \E j \in broadcastQueue, again \in BOOLEAN :
        Len(ffmpegProcs) < MaxSpawned /\ HlsStartJob(j, again)
  \/ \E j \in broadcastQueue, again \in BOOLEAN, killFails \in BOOLEAN, stopFails \in BOOLEAN :
        HlsStopJob(j, again, killFails, stopFails)
  \/ \E j \in broadcastQueue, again \in BOOLEAN : AutoEndJob(j, again)
  \/ \E pid \in DOMAIN ffmpegProcs : FfmpegExit(pid)
  \/ \E t \in Instants : AdvanceClock(t)

RelaySpec == Init /\ [][RelayNext]_vars

\* transcoding processes of a broadcast that are running (not signalled,
\* not exited)
RunningProcs(id) ==
  { pid \in DOMAIN ffmpegProcs :
      ffmpegProcs[pid].broadcastId = id /\ ffmpegProcs[pid].state = "running" }

\* egress sessions of a broadcast that are active at the provider
ActiveEgress(id) ==
  { e \in DOMAIN egressSessions :
      egressSessions[e].broadcastId = id /\ egressSessions[e].active }

\* C15: for every broadcast at most one transcoding process is running and
\* at most one egress session is active.
C15_OneRelayPerBroadcast ==
  \A id \in RowIds :
     /\ Cardinality(RunningProcs(id)) <= 1
     /\ Cardinality(ActiveEgress(id)) <= 1

\* C16: the hls-stop handler's stopHlsRelay call changes nothing when the
\* broadcast has no relay entry, leaves no entry behind, and a second call
\* right after it would change nothing.
C16_StopIdempotent ==
  [][\A j \in broadcastQueue, again \in BOOLEAN, killFails \in BOOLEAN, stopFails \in BOOLEAN :
        HlsStopJob(j, again, killFails, stopFails)
        => LET id == j.broadcastId
           IN  /\ id \notin DOMAIN activeRelays
                     => /\ activeRelays' = activeRelays
                        /\ ffmpegProcs' = ffmpegProcs
                        /\ egressSessions' = egressSessions
               /\ id \notin DOMAIN activeRelays'
               /\ StopHlsRelay(activeRelays', id) = activeRelays'
               /\ KillRelayProcess(ffmpegProcs', activeRelays', id, FALSE) = ffmpegProcs'
               /\ StopRelayEgress(egressSessions', activeRelays', id, FALSE) = egressSessions']_vars

\* the hls-stop job stopped the relay, was delivered again and found no
\* entry
C16_Witness ==
  /\ lastEvent = Event("hls-stop", 1, 0, "no_relay")
  /\ Len(ffmpegProcs) = 1
  /\ ffmpegProcs[1].state = "killed"
  /\ ~egressSessions[1].active
  /\ activeRelays = NoRelays

\* C25: the hls-stop handler's stopHlsRelay call for a broadcast with a
\* relay entry removes the entry whether or not the kill and the egress stop
\* succeed; a kill that succeeds terminates the entry's process, a stop that
\* succeeds ends the entry's egress session, and nothing else is touched.
C25_StopRemovesEntry ==
  [][\A j \in broadcastQueue, again \in BOOLEAN, killFails \in BOOLEAN, stopFails \in BOOLEAN :
        (HlsStopJob(j, again, killFails, stopFails) /\ j.broadcastId \in DOMAIN activeRelays)
        => LET id == j.broadcastId
               relay == activeRelays[id]
           IN  /\ id \notin DOMAIN activeRelays'
               /\ \A k \in DOMAIN activeRelays \ {id} :
                     k \in DOMAIN activeRelays' /\ activeRelays'[k] = activeRelays[k]
               /\ ~killFails => ffmpegProcs'[relay.process].state # "running"
               /\ (~stopFails /\ relay.egressId # 0)
                     => ~egressSessions'[relay.egressId].active
               /\ \A pid \in DOMAIN ffmpegProcs \ {relay.process} :
                     ffmpegProcs'[pid] = ffmpegProcs[pid]
               /\ \A e \in DOMAIN egressSessions \ {relay.egressId} :
                     egressSessions'[e] = egressSessions[e]]_vars

\* the only relay ever started was stopped, the kill threw and the provider
\* refused the stop: the entry is gone, the process and the session are not
C25_Witness ==
  /\ lastEvent = Event("hls-stop", 1, 0, "relay_stopped")
  /\ activeRelays = NoRelays
  /\ Len(ffmpegProcs) = 1
  /\ ffmpegProcs[1].state = "running"
  /\ Len(egressSessions) = 1
  /\ egressSessions[1].active

\* C26: when a transcoding process exits, the relay entry of its broadcast
\* is removed, no process is spawned and no hls-start job is enqueued, and
\* no broadcast row changes: the broadcast stays live.
C26_ExitRemovesEntryNoRespawn ==
  [][\A pid \in DOMAIN ffmpegProcs :
        FfmpegExit(pid)
        => /\ ffmpegProcs[pid].broadcastId \notin DOMAIN activeRelays'
           /\ ffmpegProcs'[pid].state = "exited"
           /\ Len(ffmpegProcs') = Len(ffmpegProcs)
           /\ broadcastQueue' = broadcastQueue
           /\ broadcasts' = broadcasts]_vars

\* the relay's process exited while the broadcast was live: no entry, no
\* second process, no hls-start job waiting, the broadcast still live
C26_Witness ==
  /\ broadcasts[1].status = "live"
  /\ Len(ffmpegProcs) = 1
  /\ ffmpegProcs[1].state = "exited"
  /\ activeRelays = NoRelays
  /\ \A j \in broadcastQueue : j.name # "hls-start"

\* the job whose outcome was logged last is still in the queue: it is handed
\* to its handler a second time
Redelivered(j, op) ==
  /\ j \in broadcastQueue
  /\ lastEvent.op = op
  /\ lastEvent.id = j.broadcastId

\* C21: a handler of the 'broadcasts' queue that is handed a job again after
\* its first run completed leaves the broadcasts table, the relay table with
\* its processes and egress sessions, and the notification jobs as the first
\* run left them.
C21_HandlersRerunnable ==
  [][\A j \in broadcastQueue, again \in BOOLEAN :
        (\/ HlsStartJob(j, again) /\ Redelivered(j, "hls-start")
         \/ /\ \E killFails \in BOOLEAN, stopFails \in BOOLEAN :
                  HlsStopJob(j, again, killFails, stopFails)
            /\ Redelivered(j, "hls-stop")
         \/ AutoEndJob(j, again) /\ Redelivered(j, "auto-end"))
        => /\ broadcasts' = broadcasts
           /\ activeRelays' = activeRelays
           /\ ffmpegProcs' = ffmpegProcs
           /\ egressSessions' = egressSessions
           /\ notificationQueue' = notificationQueue]_vars

\* C34: an hls-start job handled while the broadcast's persisted status is
\* not live starts no egress session and no transcoding process, records no
\* relay and writes nothing to the broadcast row.
C34_RelayOnlyForLive ==
  [][\A j \in broadcastQueue, again \in BOOLEAN :
        (HlsStartJob(j, again) /\ broadcasts[j.broadcastId].status # "live")
        => /\ egressSessions' = egressSessions
           /\ ffmpegProcs' = ffmpegProcs
           /\ activeRelays' = activeRelays
           /\ broadcasts' = broadcasts]_vars

\* the newest transcoding process spawned for a broadcast
LastSpawned(id) ==
  CHOOSE pid \in DOMAIN ffmpegProcs :
     /\ ffmpegProcs[pid].broadcastId = id
     /\ \A q \in DOMAIN ffmpegProcs : ffmpegProcs[q].broadcastId = id => q <= pid

\* C35: the relay entry of a broadcast refers to the newest process spawned
\* for it and that process is running; every running process is the one its
\* broadcast's entry refers to.
C35_EntryTracksNewestProcess ==
  /\ \A id \in DOMAIN activeRelays :
        /\ activeRelays[id].process = LastSpawned(id)
        /\ ffmpegProcs[activeRelays[id].process].state = "running"
  /\ \A pid \in DOMAIN ffmpegProcs :
        ffmpegProcs[pid].state = "running"
        => /\ ffmpegProcs[pid].broadcastId \in DOMAIN activeRelays
           /\ activeRelays[ffmpegProcs[pid].broadcastId].process = pid

\* the exit callback alone: the exit of a process that is not the one
\* its broadcast's entry refers to leaves the relay table as it is.
OldExitKeepsEntry ==
  [][\A pid \in DOMAIN ffmpegProcs :
        (/\ FfmpegExit(pid)
         /\ ffmpegProcs[pid].broadcastId \in DOMAIN activeRelays
         /\ activeRelays[ffmpegProcs[pid].broadcastId].process # pid)
        => activeRelays' = activeRelays]_vars

(***************************************************************************)
(* Fair relay specification: the worker keeps taking jobs off the queue    *)
(***************************************************************************)
\* BullMQ keeps handing deliverable jobs to the handlers and every job's
\* last delivery completes; a process exits when it exits.
FairRelayNext ==
  \/ \E id \in RequestIds : StartBroadcastRead(1, id)
  \/ StartBroadcastCommit(1, TRUE)
  \/ \E id \in RequestIds : EndBroadcast(id, TRUE, "", "")
  \/ \E j \in broadcastQueue, again \in BOOLEAN :
        Len(ffmpegProcs) < MaxSpawned /\ HlsStartJob(j, again)
  \/ \E j \in broadcastQueue : HlsStopJob(j, FALSE, FALSE, FALSE)
  \/ \E j \in broadcastQueue : AutoEndJob(j, FALSE)
  \/ \E pid \in DOMAIN ffmpegProcs : FfmpegExit(pid)
  \/ \E t \in Instants : AdvanceClock(t)

FairRelaySpec ==
  /\ Init
  /\ [][FairRelayNext]_vars
  /\ WF_vars(\E j \in broadcastQueue :
                Len(ffmpegProcs) < MaxSpawned /\ HlsStartJob(j, FALSE))
  /\ WF_vars(\E j \in broadcastQueue : HlsStopJob(j, FALSE, FALSE, FALSE))
  /\ WF_vars(\E j \in broadcastQueue : AutoEndJob(j, FALSE))
  /\ WF_vars(\E t \in Instants : AdvanceClock(t))

\* the broadcast was just completed by endBroadcast or by the auto-end
\* handler while a relay of it was up
CompletedWithRelay(id) ==
  /\ broadcasts[id].status = "completed"
  /\ lastEvent \in {Event("end", id, 200, "ended"), Event("auto-end", id, 0, "ended")}
  /\ \/ id \in DOMAIN activeRelays
     \/ RunningProcs(id) # {}
     \/ ActiveEgress(id) # {}

\* nothing of a relay of the broadcast is left
RelayStopped(id) ==
  /\ id \notin DOMAIN activeRelays
  /\ RunningProcs(id) = {}
  /\ ActiveEgress(id) = {}

\* C24: whenever a broadcast is completed while a relay of it is up, the
\* relay is eventually stopped: no table entry, no running transcoding
\* process and no active egress session of the broadcast remains.
C24_RelayEventuallyStopped ==
  \A id \in 1..NumRows : CompletedWithRelay(id) ~> RelayStopped(id)

====
